---- MODULE Spec2Model ----
(***************************************************************************)
(* Invoice OCR backend: the upload handler (routers/invoice_router.py),    *)
(* the token cache (services/uaa_service.py), the extraction client and    *)
(* result parser (services/document_ai_service.py) and the persistence     *)
(* gateway (services/database_service.py).                                  *)
(*                                                                         *)
(* Conventions.  Python None / an absent value is the empty tuple <<>>,    *)
(* a present value x is <<x>>.  File names are sequences of one-character  *)
(* strings so that lower() and endswith() are computed.  The clock counts  *)
(* whole seconds, the resolution of the handler's strftime format.         *)
(* file_size_kb (bytes / 1024, a float) is carried as the byte count, an   *)
(* exact stand-in because division by 1024 is injective.                   *)
(***************************************************************************)
EXTENDS Integers, Sequences, FiniteSets, TLC

(***************************************************************************)
(* Bounds of the model.                                                    *)
(***************************************************************************)
MaxClock == 1
MaxTokenCalls == 2
MaxTokenClock == 600
TokenTick == 150
ShortPolls == 1
MaxRefreshCalls == 3
MaxFields == 3
MaxRows == 3
MaxIdentity == 4
MaxStoreClock == 1

(***************************************************************************)
(* Program constants.                                                      *)
(***************************************************************************)
MAX_FILE_SIZE_MB == 10
max_poll_attempts == 30
poll_interval == 2
TOKEN_BUFFER == 300
DEFAULT_EXPIRES_IN == 43200

None == <<>>
Some(x) == <<x>>
IsNone(o) == o = <<>>
Val(o) == o[1]

Slots == {1, 2}

(***************************************************************************)
(* Strings of the handler's messages.                                      *)
(***************************************************************************)
CodeStr(n) ==
  CASE n = 200 -> "200" [] n = 201 -> "201" [] n = 401 -> "401"
    [] n = 404 -> "404" [] n = 500 -> "500" [] n = 503 -> "503"
    [] OTHER -> "?"

NumStr(n) ==
  CASE n = 60 -> "60" [] n = 10 -> "10" [] n = 30 -> "30" [] n = 2 -> "2"
    [] OTHER -> "?"

(***************************************************************************)
(* File names: file.filename.lower().endswith('.pdf')                      *)
(***************************************************************************)
LowerChar(c) ==
  CASE c = "A" -> "a" [] c = "B" -> "b" [] c = "P" -> "p" [] c = "D" -> "d"
    [] c = "F" -> "f" [] c = "T" -> "t" [] c = "X" -> "x"
    [] OTHER -> c

Lower(s) == [i \in 1..Len(s) |-> LowerChar(s[i])]

EndsWith(s, suffix) ==
  /\ Len(s) >= Len(suffix)
  /\ SubSeq(s, Len(s) - Len(suffix) + 1, Len(s)) = suffix

DotPdf == <<".", "p", "d", "f">>

IsPdfNoDot(filename) == EndsWith(Lower(filename), <<"p", "d", "f">>)

IsPdf(filename) == EndsWith(Lower(filename), DotPdf)

A_PDF == <<"a", ".", "p", "d", "f">>
B_PDF_UPPER == <<"b", ".", "P", "D", "F">>
A_TXT == <<"a", ".", "t", "x", "t">>
PDF_NO_DOT == <<"p", "d", "f">>
A_PDF_TXT == <<"a", ".", "p", "d", "f", ".", "t", "x", "t">>

FileNames == {A_PDF, B_PDF_UPPER, A_TXT, PDF_NO_DOT, A_PDF_TXT}

(***************************************************************************)
(* Upload size check.                                                      *)
(***************************************************************************)
max_size_bytes == MAX_FILE_SIZE_MB * 1024 * 1024

TooLargeOffByOne(file_size_bytes) == file_size_bytes >= max_size_bytes

TooLarge(file_size_bytes) == file_size_bytes > max_size_bytes

FileSizes == {0, max_size_bytes, max_size_bytes + 1}

FreshInode(ino) == CHOOSE i \in 1..(Cardinality(DOMAIN ino) + 1) : i \notin DOMAIN ino

(***************************************************************************)
(* Temporary files.  A file's content is a sequence of segments            *)
(* [who, len]: len bytes taken from the upload of slot who.                *)
(***************************************************************************)
Bytes(who, n) == IF n = 0 THEN <<>> ELSE <<[who |-> who, len |-> n]>>

RECURSIVE ContentLen(_)
ContentLen(c) == IF c = <<>> THEN 0 ELSE Head(c).len + ContentLen(Tail(c))

RECURSIVE DropBytes(_, _)
DropBytes(c, n) ==
  IF c = <<>> \/ n = 0 THEN c
  ELSE IF Head(c).len <= n THEN DropBytes(Tail(c), n - Head(c).len)
  ELSE <<[who |-> Head(c).who, len |-> Head(c).len - n]>> \o Tail(c)

\* a write of new at offset 0 of a file holding old
WriteAt0(new, old) == new \o DropBytes(old, ContentLen(new))

Timestamp(now) == now

TempPath(now, filename) == <<Timestamp(now), filename>>

(***************************************************************************)
(* Token cache: UAAService.get_access_token                                *)
(***************************************************************************)
Truthy(o) == o # None /\ Val(o) # ""

TokenValidNoBuffer(cached_token, token_expires_at, now) ==
  Truthy(cached_token) /\ now < token_expires_at

TokenValid(cached_token, token_expires_at, now) ==
  Truthy(cached_token) /\ now < (token_expires_at - TOKEN_BUFFER)

\* token_data.get("expires_in", 43200)
ExpiresIn(token_data) ==
  IF IsNone(token_data.expires_in) THEN DEFAULT_EXPIRES_IN
  ELSE Val(token_data.expires_in)

Tokens == {"tokA", "tokB"}

\* an answer of the identity endpoint: kind "http" carries a status code and,
\* for 200, the JSON body; kind "neterr" is a transport error of the client
TokenResp(code, text, tok, exp) ==
  [kind |-> "http", status_code |-> code, text |-> text,
   access_token |-> tok, expires_in |-> exp, message |-> ""]

NetErr(msg) ==
  [kind |-> "neterr", status_code |-> 0, text |-> "",
   access_token |-> None, expires_in |-> None, message |-> msg]

NetErrMessages == {"", "All connection attempts failed"}

TokenResponses(expiries) ==
  {TokenResp(200, "", Some(t), e) : t \in Tokens, e \in expiries}
    \cup {TokenResp(401, "Unauthorized", None, None)}
    \cup {TokenResp(200, "", None, None)}
    \cup {NetErr(m) : m \in NetErrMessages}

(***************************************************************************)
(* Vendor answers and the result parser:                                   *)
(* DocumentAIService._parse_extraction_results                             *)
(***************************************************************************)
Field(name, value, confidence) ==
  [name |-> name, value |-> value, confidence |-> confidence]

\* confidences are hundredths; 0 stands for a missing or zero confidence
FieldsOk == <<Field("invoiceNumber", Some("INV-1"), 90),
              Field("senderName", Some("Acme"), 80)>>
FieldsNoSender == <<Field("invoiceNumber", Some("INV-1"), 90),
                    Field("receiverName", Some("Bob"), 0)>>
FieldsNoNumber == <<Field("senderName", Some("Acme"), 80),
                    Field("invoiceNumber", Some(""), 70)>>
FieldsDup == <<Field("invoiceNumber", Some("INV-1"), 90),
               Field("senderName", Some("Acme"), 80),
               Field("invoiceNumber", Some("INV-2"), 0),
               Field("senderName", None, 60)>>

RECURSIVE ScanFieldsLastOccurrence(_, _)
ScanFieldsLastOccurrence(header_fields, acc) ==
  IF header_fields = <<>> THEN acc
  ELSE LET field == Head(header_fields)
       IN ScanFieldsLastOccurrence(Tail(header_fields),
            [invoice_number |->
               IF field.name = "invoiceNumber"
                 THEN field.value ELSE acc.invoice_number,
             vendor_name |->
               IF field.name = "senderName"
                 THEN field.value ELSE acc.vendor_name,
             confidence_scores |->
               IF field.confidence # 0
                 THEN Append(acc.confidence_scores, field.confidence)
                 ELSE acc.confidence_scores])

RECURSIVE ScanFieldsFirstWins(_, _)
ScanFieldsFirstWins(header_fields, acc) ==
  IF header_fields = <<>> THEN acc
  ELSE LET field == Head(header_fields)
       IN ScanFieldsFirstWins(Tail(header_fields),
            [invoice_number |->
               IF field.name = "invoiceNumber" /\ Truthy(field.value)
                    /\ ~Truthy(acc.invoice_number)
                 THEN field.value ELSE acc.invoice_number,
             vendor_name |->
               IF field.name = "senderName" /\ Truthy(field.value)
                    /\ ~Truthy(acc.vendor_name)
                 THEN field.value ELSE acc.vendor_name,
             confidence_scores |->
               IF field.confidence # 0
                 THEN Append(acc.confidence_scores, field.confidence)
                 ELSE acc.confidence_scores])

\* the loop over header_fields: a later non-empty match overwrites an
\* earlier one, every non-zero confidence is collected
RECURSIVE ScanFields(_, _)
ScanFields(header_fields, acc) ==
  IF header_fields = <<>> THEN acc
  ELSE LET field == Head(header_fields)
       IN ScanFields(Tail(header_fields),
            [invoice_number |->
               IF field.name = "invoiceNumber" /\ Truthy(field.value)
                 THEN field.value ELSE acc.invoice_number,
             vendor_name |->
               IF field.name = "senderName" /\ Truthy(field.value)
                 THEN field.value ELSE acc.vendor_name,
             confidence_scores |->
               IF field.confidence # 0
                 THEN Append(acc.confidence_scores, field.confidence)
                 ELSE acc.confidence_scores])

Scan(header_fields) ==
  ScanFields(header_fields,
    [invoice_number |-> None, vendor_name |-> None, confidence_scores |-> <<>>])

RECURSIVE SumSeq(_)
SumSeq(s) == IF s = <<>> THEN 0 ELSE Head(s) + SumSeq(Tail(s))

\* num / den rounded to the nearest integer, an exact tie to the even one
RoundHalfEven(num, den) ==
  LET q == num \div den
      r2 == 2 * (num % den)
  IN IF r2 > den \/ (r2 = den /\ q % 2 = 1) THEN q + 1 ELSE q

AvgConfidenceTruncates(scores) ==
  IF scores = <<>> THEN 0 ELSE SumSeq(scores) \div Len(scores)

\* round(sum / len, 2), in hundredths
AvgConfidence(scores) ==
  IF scores = <<>> THEN 0 ELSE RoundHalfEven(SumSeq(scores), Len(scores))

JsonDumps(x) == <<"json", x>>

ParseAcceptsMissingSender(extraction_result) ==
  LET sc == Scan(extraction_result.headerFields)
  IN IF ~Truthy(sc.invoice_number)
       THEN [ok |-> FALSE, invoice_number |-> "", vendor_name |-> "",
             confidence_score |-> 0, raw_json |-> None,
             error |-> "Error parsing extraction results: Invoice number not found in extraction results"]
       ELSE [ok |-> TRUE, invoice_number |-> Val(sc.invoice_number),
             vendor_name |-> IF Truthy(sc.vendor_name) THEN Val(sc.vendor_name) ELSE "",
             confidence_score |-> AvgConfidence(sc.confidence_scores),
             raw_json |-> JsonDumps(extraction_result), error |-> ""]

_parse_extraction_results(extraction_result) ==
  LET sc == Scan(extraction_result.headerFields)
      failed(msg) == [ok |-> FALSE, invoice_number |-> "", vendor_name |-> "",
                      confidence_score |-> 0, raw_json |-> None,
                      error |-> "Error parsing extraction results: " \o msg]
  IN IF ~Truthy(sc.invoice_number)
       THEN failed("Invoice number not found in extraction results")
     ELSE IF ~Truthy(sc.vendor_name)
       THEN failed("Vendor name not found in extraction results")
     ELSE [ok |-> TRUE, invoice_number |-> Val(sc.invoice_number),
           vendor_name |-> Val(sc.vendor_name),
           confidence_score |-> AvgConfidence(sc.confidence_scores),
           raw_json |-> JsonDumps(extraction_result), error |-> ""]

\* an answer of the vendor's job endpoints
VendorResp(code, text, id, status, error, fields) ==
  [kind |-> "http", status_code |-> code, text |-> text, id |-> id,
   status |-> status, error |-> error, headerFields |-> fields, message |-> ""]

VendorNetErr(msg) ==
  [kind |-> "neterr", status_code |-> 0, text |-> "", id |-> None,
   status |-> None, error |-> None, headerFields |-> <<>>, message |-> msg]

UploadResponses ==
  {VendorResp(c, "", Some("job-1"), Some("PENDING"), None, <<>>) : c \in {200, 201}}
    \cup {VendorResp(201, "", None, None, None, <<>>),
          VendorResp(201, "", Some(""), None, None, <<>>),
          VendorResp(500, "Internal Server Error", Some("job-1"), None, None, <<>>)}
    \cup {VendorNetErr(m) : m \in NetErrMessages}

PendingResponses ==
  {VendorResp(200, "", Some("job-1"), Some(s), None, <<>>) : s \in {"PENDING", "RUNNING"}}

DoneResponses(fieldLists) ==
  {VendorResp(200, "", Some("job-1"), Some("DONE"), None, f) : f \in fieldLists}

TerminalErrorResponses ==
  {VendorResp(200, "", Some("job-1"), Some("FAILED"), Some("unreadable scan"), <<>>),
   VendorResp(200, "", Some("job-1"), Some("FAILED"), None, <<>>),
   VendorResp(200, "", Some("job-1"), Some("done"), None, FieldsOk),
   VendorResp(200, "", Some("job-1"), None, None, <<>>),
   VendorResp(503, "Service Unavailable", Some("job-1"), Some("DONE"), None, FieldsOk)}
    \cup {VendorNetErr(m) : m \in NetErrMessages}

(***************************************************************************)
(* Persistence gateway: DatabaseService                                    *)
(***************************************************************************)
DbOutcomes == {"ok", "connect_error", "execute_error", "commit_error", "close_error"}

\* a failed statement or commit on a connection that is gone: the rollback
\* raises as well; a close that raises after a rollback
ScopeOutcomes ==
  DbOutcomes \cup {"execute_rollback_error", "commit_rollback_error",
                   "execute_close_error"}

\* the driver calls that raise under an outcome
RaisingCalls(outcome) ==
  CASE outcome = "connect_error" -> {"connect"}
    [] outcome = "execute_error" -> {"execute"}
    [] outcome = "commit_error" -> {"commit"}
    [] outcome = "close_error" -> {"close"}
    [] outcome = "execute_rollback_error" -> {"execute", "rollback"}
    [] outcome = "commit_rollback_error" -> {"commit", "rollback"}
    [] outcome = "execute_close_error" -> {"execute", "close"}
    [] OTHER -> {}

\* str(e) of the error a driver call raises
CallErrorText(c) ==
  CASE c = "connect" -> "Connection failed"
    [] c = "execute" -> "SQL execution failed"
    [] c = "commit" -> "Commit failed"
    [] c = "rollback" -> "Rollback failed"
    [] c = "close" -> "Close failed"
    [] OTHER -> ""

\* the error that leaves a sequence of calls: the one raised last
RECURSIVE LastRaised(_, _)
LastRaised(calls, raising) ==
  IF calls = <<>> THEN ""
  ELSE IF calls[Len(calls)] \in raising THEN CallErrorText(calls[Len(calls)])
  ELSE LastRaised(SubSeq(calls, 1, Len(calls) - 1), raising)

get_connectionNoRollback(outcome) ==
  LET raising == RaisingCalls(outcome)
      opened == "connect" \notin raising
      body_ok == opened /\ "execute" \notin raising
      committed == body_ok /\ "commit" \notin raising
      calls == <<"connect">>
                 \o (IF opened THEN <<"execute">> ELSE <<>>)
                 \o (IF body_ok THEN <<"commit">> ELSE <<>>)
                 \o (IF opened THEN <<"close">> ELSE <<>>)
  IN [calls |-> calls, committed |-> committed,
      raised |-> \E i \in 1..Len(calls) : calls[i] \in raising,
      error |-> LastRaised(calls, raising)]

\* the scoped connection around one body (the body's statements are the call
\* "execute"): the calls made on the driver in order, whether the body's work
\* is committed, whether the scope raises, and the text of the error it raises
get_connection(outcome) ==
  LET raising == RaisingCalls(outcome)
      \* line 33: connection stays None when connect raises
      opened == "connect" \notin raising
      \* line 41: the body runs in the with block
      body_ok == opened /\ "execute" \notin raising
      \* line 42: reached only when the body did not raise
      committed == body_ok /\ "commit" \notin raising
      \* lines 43-46: except branch, if connection
      rolled_back == opened /\ ~committed
      calls == <<"connect">>
                 \o (IF opened THEN <<"execute">> ELSE <<>>)
                 \o (IF body_ok THEN <<"commit">> ELSE <<>>)
                 \o (IF rolled_back THEN <<"rollback">> ELSE <<>>)
                 \* lines 47-49: finally, if connection
                 \o (IF opened THEN <<"close">> ELSE <<>>)
  IN [calls |-> calls, committed |-> committed,
      raised |-> \E i \in 1..Len(calls) : calls[i] \in raising,
      error |-> LastRaised(calls, raising)]

DbErrorText(outcome) == get_connection(outcome).error

Row(invoice_number, vendor_name, file_name, file_size_kb, raw_text, status, error_message) ==
  [invoice_id |-> 0, upload_timestamp |-> 0,
   invoice_number |-> invoice_number, vendor_name |-> vendor_name,
   file_name |-> file_name, file_size_kb |-> file_size_kb, raw_text |-> raw_text,
   status |-> status, error_message |-> error_message]

\* the columns the INSERT leaves to the store: the identity value and the
\* upload timestamp, the store's current time
StoreDefaults(row, invoice_id, now) ==
  [row EXCEPT !.invoice_id = invoice_id, !.upload_timestamp = now]

insert_invoiceReusesIdentity(database, row, outcome) ==
  LET c == get_connection(outcome)
      invoice_id == database.identity + 1
  IN [database |->
        [database EXCEPT
           !.rows = IF c.committed
                      THEN Append(@, StoreDefaults(row, invoice_id, database.now))
                      ELSE @,
           !.identity = IF c.raised THEN @ ELSE invoice_id],
      raised |-> c.raised,
      error |-> c.error,
      invoice_id |-> invoice_id,
      calls |-> c.calls]

\* the INSERT takes the next identity value once it executes
insert_invoice(database, row, outcome) ==
  LET c == get_connection(outcome)
      executed == "connect" \notin RaisingCalls(outcome)
                    /\ "execute" \notin RaisingCalls(outcome)
      invoice_id == database.identity + 1
  IN [database |->
        [database EXCEPT
           !.rows = IF c.committed
                      THEN Append(@, StoreDefaults(row, invoice_id, database.now))
                      ELSE @,
           !.identity = IF executed THEN invoice_id ELSE @],
      raised |-> c.raised,
      error |-> c.error,
      invoice_id |-> invoice_id,
      calls |-> c.calls]

FloatOrNone(x) == IF x # 0 THEN Some(x) ELSE None

get_invoice(database, invoice_id) ==
  LET hits == {i \in 1..Len(database.rows) : database.rows[i].invoice_id = invoice_id}
  IN IF hits = {} THEN None
     ELSE LET row == database.rows[CHOOSE i \in hits : TRUE]
          IN Some([invoice_id |-> row.invoice_id,
                   invoice_number |-> row.invoice_number,
                   vendor_name |-> row.vendor_name,
                   file_name |-> row.file_name,
                   file_size_kb |-> FloatOrNone(row.file_size_kb),
                   status |-> row.status,
                   error_message |-> row.error_message])

\* the orders in which the store may return its rows for
\* ORDER BY UPLOAD_TIMESTAMP DESC: rows of equal timestamp come in any order
Orderings(rows) ==
  {p \in [1..Len(rows) -> 1..Len(rows)] :
     /\ \A i, j \in 1..Len(rows) : i # j => p[i] # p[j]
     /\ \A i, j \in 1..Len(rows) :
          i < j => rows[p[i]].upload_timestamp >= rows[p[j]].upload_timestamp}

\* get_all_invoices, lines 185-194: the dict built from one fetched row
ListRecord(row) ==
  [invoice_id |-> row.invoice_id, invoice_number |-> row.invoice_number,
   vendor_name |-> row.vendor_name, upload_timestamp |-> Some(row.upload_timestamp),
   file_name |-> row.file_name, file_size_kb |-> FloatOrNone(row.file_size_kb),
   status |-> row.status]

get_all_invoicesSwapsLimitOffset(database, limit, offset, ordering) ==
  LET n == Len(database.rows)
      k == IF limit >= n THEN 0
           ELSE IF offset < n - limit THEN offset ELSE n - limit
  IN [i \in 1..k |-> ListRecord(database.rows[ordering[limit + i]])]

\* get_all_invoices, lines 162-196: LIMIT ? OFFSET ? applied to the ordered rows
get_all_invoices(database, limit, offset, ordering) ==
  LET n == Len(database.rows)
      k == IF offset >= n THEN 0
           ELSE IF limit < n - offset THEN limit ELSE n - offset
  IN [i \in 1..k |-> ListRecord(database.rows[ordering[offset + i]])]

\* the list endpoint, invoice_router.py lines 164-175
InvoiceListResponse(invoices, limit, offset) ==
  [invoices |-> invoices, total |-> Len(invoices), limit |-> limit,
   offset |-> offset]

(***************************************************************************)
(* The health check.  key_file is the service key file as json.load reads  *)
(* it: None when no candidate path exists, else the two entries the check  *)
(* looks at, each None when the key is absent from the file.               *)
(***************************************************************************)
\* test_connection: the SELECT 1 FROM DUMMY runs in the scoped connection;
\* dummy is the number the driver hands back
test_connection(outcome, dummy) ==
  LET c == get_connection(outcome)
  IN [raised |-> c.raised, error |-> c.error,
      result |-> IF c.raised THEN None ELSE Some(dummy = 1)]

\* DocumentAIConfig._load_service_key
_load_service_key(key_file) ==
  IF key_file = None
    THEN [raised |-> TRUE, error |-> "FileNotFoundError", _service_key |-> None]
    ELSE [raised |-> FALSE, error |-> "", _service_key |-> key_file]

\* get_dox_config: the singleton is built on the first call that succeeds
get_dox_config(dox_config, key_file) ==
  IF dox_config # None
    THEN [raised |-> FALSE, error |-> "", dox_config |-> dox_config]
    ELSE LET loaded == _load_service_key(key_file)
         IN [raised |-> loaded.raised, error |-> loaded.error,
             dox_config |-> loaded._service_key]

\* the uaa_url and document_ai_url properties: a missing key raises KeyError
uaa_url(service_key) ==
  IF service_key.uaa_url = None
    THEN [raised |-> TRUE, error |-> "KeyError", value |-> ""]
    ELSE [raised |-> FALSE, error |-> "", value |-> Val(service_key.uaa_url)]

document_ai_url(service_key) ==
  IF service_key.url = None
    THEN [raised |-> TRUE, error |-> "KeyError", value |-> ""]
    ELSE [raised |-> FALSE, error |-> "", value |-> Val(service_key.url)]

\* bool(dox_config.uaa_url and dox_config.document_ai_url): the second
\* property is read only when the first is non-empty
ConfigComplete(service_key) ==
  LET first == uaa_url(service_key)
      second == document_ai_url(service_key)
  IN IF first.raised THEN [raised |-> TRUE, error |-> first.error, value |-> FALSE]
     ELSE IF first.value = "" THEN [raised |-> FALSE, error |-> "", value |-> FALSE]
     ELSE IF second.raised
       THEN [raised |-> TRUE, error |-> second.error, value |-> FALSE]
     ELSE [raised |-> FALSE, error |-> "", value |-> second.value # ""]

RECURSIVE JoinIssues(_)
JoinIssues(issues) ==
  IF issues = <<>> THEN ""
  ELSE IF Len(issues) = 1 THEN Head(issues)
  ELSE Head(issues) \o ", " \o JoinIssues(Tail(issues))

IssuesDatabaseOnly(database_connected, document_ai_configured) ==
  IF database_connected THEN <<>> ELSE <<"database">>

Issues(database_connected, document_ai_configured) ==
  (IF database_connected THEN <<>> ELSE <<"database">>)
    \o (IF document_ai_configured THEN <<>> ELSE <<"document_ai">>)

health_check(outcome, dummy, dox_config, key_file) ==
  LET ping == test_connection(outcome, dummy)
      database_connected == IF ping.raised THEN FALSE ELSE Val(ping.result)
      config == get_dox_config(dox_config, key_file)
      complete == ConfigComplete(Val(config.dox_config))
      document_ai_configured ==
        IF config.raised THEN FALSE
        ELSE IF complete.raised THEN FALSE
        ELSE complete.value
      healthy == database_connected /\ document_ai_configured
  IN [status |-> IF healthy THEN "healthy" ELSE "degraded",
      message |-> IF healthy THEN "All systems operational"
                  ELSE "Issues detected: "
                         \o JoinIssues(Issues(database_connected,
                                              document_ai_configured)),
      database_connected |-> database_connected,
      document_ai_configured |-> document_ai_configured,
      dox_config |-> config.dox_config]

(***************************************************************************)
(* State.                                                                  *)
(*   clock             time.time() / datetime.now(), in seconds            *)
(*   cached_token, token_expires_at   the UAAService singleton             *)
(*   upload_dir        whether settings.UPLOAD_DIR exists                  *)
(*   dir, inodes       the upload directory: path -> inode, inode -> bytes *)
(*   database          the INVOICES table and its identity counter         *)
(*   started           number of upload requests received so far           *)
(*   req               per slot, the locals of the upload in progress      *)
(***************************************************************************)
VARIABLES clock, cached_token, token_expires_at, upload_dir, dir, inodes,
          database, started, req, call

vars == <<clock, cached_token, token_expires_at, upload_dir, dir, inodes,
          database, started, req, call>>

\* no call of the gateway, the parser or the health endpoint made yet
NoCall ==
  [op |-> "none", outcome |-> "ok", args |-> <<>>, calls |-> <<>>,
   raised |-> FALSE, error |-> "", result |-> None]

IdleReq ==
  [pc |-> "idle", file_name |-> <<>>, content_len |-> 0,
   temp_filepath |-> None, has_size |-> FALSE, wfd |-> 0, rfd |-> 0,
   access_token |-> None, uaa_posts |-> 0, job_posts |-> 0, polls |-> 0,
   sleeps |-> 0, attempt |-> 0, pendings |-> 0, cache_seen |-> None,
   token_resp |-> None, sent |-> None, upload_resp |-> None,
   document_id |-> None, last_poll |-> None,
   extraction_result |-> None, error_message |-> None, db_ops |-> <<>>,
   response |-> None]

Resp(code, detail, body) == [status_code |-> code, detail |-> detail, body |-> body]

\* str(request.url): the route and the parameters the caller sent
Url(route, params) == [route |-> route, params |-> params]

IdStr(n) ==
  CASE n = 1 -> "1" [] n = 2 -> "2" [] n = 3 -> "3" [] n = 4 -> "4"
    [] n = 5 -> "5" [] OTHER -> "?"

global_exception_handlerLeaksDetail(url, error) ==
  Resp(500, error, Some([error |-> "INTERNAL_SERVER_ERROR", path |-> url]))

\* main.py lines 82-96: the answer to an error no handler caught
global_exception_handler(url, error) ==
  Resp(500, "An unexpected error occurred. Please try again later.",
       Some([error |-> "INTERNAL_SERVER_ERROR", path |-> url]))

\* one call of insert_invoice as the handler made it
DbOp(row, ins, outcome) ==
  [row |-> row, outcome |-> outcome, calls |-> ins.calls, raised |-> ins.raised,
   invoice_id |-> ins.invoice_id]

StoreTokenIgnoresExpiresIn(token_data, now) ==
  [cached_token |-> token_data.access_token,
   token_expires_at |-> now + DEFAULT_EXPIRES_IN]

StoreToken(token_data, now) ==
  [cached_token |-> token_data.access_token,
   token_expires_at |-> now + ExpiresIn(token_data)]

\* the table survives restarts: it is empty, or holds a row of an earlier run
\* (identity values need not be contiguous: a rolled-back INSERT keeps its own)
InitialDatabases ==
  {[rows |-> <<>>, identity |-> 0, now |-> 0],
   [rows |-> <<[Row("INV-0", "Old Corp", B_PDF_UPPER, 4096, JsonDumps("old"),
                    "PROCESSED", None) EXCEPT !.invoice_id = 2]>>,
    identity |-> 3, now |-> 0]}

\* the state after startup: lifespan() has called get_access_token once,
\* at clock 0, and the call either failed or cached a token
Init ==
  /\ clock = 0
  /\ \E boot \in {NetErr("")} \cup {TokenResp(200, "", Some("tokA"), None)} :
       IF boot.kind = "http"
         THEN /\ cached_token = StoreToken(boot, 0).cached_token
              /\ token_expires_at = StoreToken(boot, 0).token_expires_at
         ELSE /\ cached_token = None
              /\ token_expires_at = 0
  /\ upload_dir = FALSE
  /\ dir = [p \in {} |-> 0]
  /\ inodes = [i \in {} |-> <<>>]
  /\ database \in InitialDatabases
  /\ started = 0
  /\ req = [r \in Slots |-> IdleReq]
  /\ call = NoCall

(***************************************************************************)
(* The finally block of upload_invoice and the except branch.              *)
(***************************************************************************)
Unlink(d, p) == [q \in (DOMAIN d) \ {p} |-> d[q]]

Handles(rq) == {rq[s].wfd : s \in Slots} \cup {rq[s].rfd : s \in Slots}

\* an inode lives while a directory entry or an open handle refers to it
Gc(ino, d, rq) ==
  [i \in (DOMAIN ino) \cap ({d[p] : p \in DOMAIN d} \cup Handles(rq)) |-> ino[i]]

CleanupTempNever(d, path) == d

\* if temp_filepath.exists(): os.remove(temp_filepath)
CleanupTemp(d, path) ==
  IF path # None /\ Val(path) \in DOMAIN d THEN Unlink(d, Val(path)) ELSE d

Finish(r, rec, resp) ==
  LET d2 == CleanupTemp(dir, rec.temp_filepath)
      rq2 == [req EXCEPT ![r] = [rec EXCEPT !.pc = "done", !.wfd = 0, !.rfd = 0,
                                            !.response = Some(resp)]]
  IN /\ req' = rq2
     /\ dir' = d2
     /\ inodes' = Gc(inodes, d2, rq2)

FailedRowNoMessage(rec, error_message) ==
  Row("UNKNOWN", "UNKNOWN", rec.file_name,
      IF rec.has_size THEN rec.content_len ELSE 0, None, "FAILED", None)

\* raw_text "" is the empty tuple
FailedRow(rec, error_message) ==
  Row("UNKNOWN", "UNKNOWN", rec.file_name,
      IF rec.has_size THEN rec.content_len ELSE 0, None, "FAILED",
      Some(error_message))

FailureResponseGeneric(error_message) ==
  Resp(422, "Failed to process invoice", None)

FailureResponse(error_message) ==
  Resp(422, "Failed to process invoice: " \o error_message, None)

FailNoRecord(r, rec, db, error_message, outcome) ==
  /\ database' = db
  /\ Finish(r, [rec EXCEPT !.error_message = Some(error_message)],
            FailureResponse(error_message))

FailRetriesInsert(r, rec, db, error_message, outcome) ==
  LET ins == insert_invoice(db, FailedRow(rec, error_message), outcome)
      again == insert_invoice(ins.database, FailedRow(rec, error_message), "ok")
      op == DbOp(FailedRow(rec, error_message), ins, outcome)
      op2 == DbOp(FailedRow(rec, error_message), again, "ok")
  IN /\ database' = IF ins.raised THEN again.database ELSE ins.database
     /\ Finish(r, [rec EXCEPT !.error_message = Some(error_message),
                              !.db_ops = IF ins.raised THEN @ \o <<op, op2>>
                                         ELSE Append(@, op)],
               FailureResponse(error_message))

\* except Exception as e: best-effort FAILED insert, then 422
Fail(r, rec, db, error_message, outcome) ==
  LET ins == insert_invoice(db, FailedRow(rec, error_message), outcome)
  IN /\ database' = ins.database
     /\ Finish(r, [rec EXCEPT !.error_message = Some(error_message),
                              !.db_ops = Append(@,
                                 DbOp(FailedRow(rec, error_message), ins, outcome))],
               FailureResponse(error_message))

(***************************************************************************)
(* upload_invoice, one action per stretch between two awaits.              *)
(***************************************************************************)
InvalidTypeResponse ==
  Resp(400, "Invalid file type. Only PDF files are allowed.", None)

TooLargeResponse ==
  Resp(400, "File size exceeds maximum allowed size of "
              \o NumStr(MAX_FILE_SIZE_MB) \o "MB", None)

\* lines 39-53: the file-name check, mkdir, the temporary path
Receive(r, names, sizes) ==
  /\ req[r].pc = "idle"
  /\ \E filename \in names, n \in sizes :
       LET rec == [IdleReq EXCEPT !.file_name = filename, !.content_len = n]
       IN IF ~IsPdf(filename)
            THEN /\ req' = [req EXCEPT ![r] =
                              [rec EXCEPT !.pc = "done",
                                          !.response = Some(InvalidTypeResponse)]]
                 /\ UNCHANGED upload_dir
            ELSE /\ req' = [req EXCEPT ![r] =
                              [rec EXCEPT !.pc = "open",
                                          !.temp_filepath = Some(TempPath(clock, filename))]]
                 /\ upload_dir' = TRUE
  /\ started' = started + 1
  /\ UNCHANGED <<call, clock, cached_token, token_expires_at, dir, inodes, database>>

\* lines 46-48: mkdir raises (the parent directory is not writable); the
\* error is raised before the try block and no handler of the route catches it
MkdirFails(r, names, sizes) ==
  /\ req[r].pc = "idle"
  /\ ~upload_dir
  /\ \E filename \in names, n \in sizes :
       /\ IsPdf(filename)
       /\ req' = [req EXCEPT ![r] =
                    [IdleReq EXCEPT
                       !.file_name = filename, !.content_len = n, !.pc = "done",
                       !.response =
                         Some(global_exception_handler(
                                Url("/api/v1/invoices/upload", <<>>),
                                "[Errno 13] Permission denied"))]]
  /\ started' = started + 1
  /\ UNCHANGED <<call, clock, cached_token, token_expires_at, upload_dir, dir, inodes,
                 database>>

\* lines 57-69: aiofiles.open(.., 'wb') creates or truncates the file, the
\* upload is read and its size checked
OpenTemp(r, opened, outcome) ==
  /\ req[r].pc = "open"
  /\ LET rec == req[r]
         path == Val(rec.temp_filepath)
     IN IF ~opened
          THEN Fail(r, rec, database, "[Errno 13] Permission denied", outcome)
          ELSE LET ino == IF path \in DOMAIN dir THEN dir[path] ELSE FreshInode(inodes)
               IN /\ dir' = (path :> ino) @@ dir
                  /\ inodes' = (ino :> <<>>) @@ inodes
                  /\ req' = [req EXCEPT ![r] =
                               [rec EXCEPT !.wfd = ino, !.has_size = TRUE,
                                           !.pc = IF TooLarge(rec.content_len)
                                                    THEN "reject" ELSE "write"]]
                  /\ UNCHANGED database
  /\ UNCHANGED <<call, clock, cached_token, token_expires_at, upload_dir, started>>

\* lines 65-69, 100-102, 126-132: the size rejection leaves the async with
\* (the file is closed), is re-raised, and the finally block runs
RejectTooLarge(r) ==
  /\ req[r].pc = "reject"
  /\ Finish(r, req[r], TooLargeResponse)
  /\ UNCHANGED <<call, clock, cached_token, token_expires_at, upload_dir, database, started>>

\* line 71: out_file.write(content)
WriteTemp(r) ==
  /\ req[r].pc = "write"
  /\ inodes' = [inodes EXCEPT ![req[r].wfd] =
                  WriteAt0(Bytes(r, req[r].content_len), @)]
  /\ req' = [req EXCEPT ![r].pc = "close"]
  /\ UNCHANGED <<call, clock, cached_token, token_expires_at, upload_dir, dir,
                 database, started>>

\* _upload_document, line 68: open(pdf_file_path, 'rb'), then the POST is sent
OpenForUpload(r, rec, outcome) ==
  LET path == Val(rec.temp_filepath)
  IN IF path \in DOMAIN dir
       THEN LET rq2 == [req EXCEPT ![r] =
                          [rec EXCEPT !.rfd = dir[path], !.pc = "upload_post",
                                      !.job_posts = @ + 1]]
            IN /\ req' = rq2
               /\ inodes' = Gc(inodes, dir, rq2)
               /\ UNCHANGED <<dir, database>>
       ELSE Fail(r, rec, database, "[Errno 2] No such file or directory", outcome)

\* the temp file is closed; extract_invoice_data starts: get_access_token,
\* lines 35-36, returns the cached token or sends the token request
GetToken(r, outcome) ==
  /\ req[r].pc = "close"
  /\ LET rec == [req[r] EXCEPT !.wfd = 0,
                               !.cache_seen = Some([cached_token |-> cached_token,
                                                    token_expires_at |-> token_expires_at,
                                                    now |-> clock])]
     IN IF TokenValid(cached_token, token_expires_at, clock)
          THEN OpenForUpload(r, [rec EXCEPT !.access_token = cached_token], outcome)
          ELSE LET rq2 == [req EXCEPT ![r] =
                             [rec EXCEPT !.pc = "token_post", !.uaa_posts = @ + 1]]
               IN /\ req' = rq2
                  /\ inodes' = Gc(inodes, dir, rq2)
                  /\ UNCHANGED <<dir, database>>
  /\ UNCHANGED <<call, clock, cached_token, token_expires_at, upload_dir, started>>

TokenRejectedOnlyServerErrors(resp) == resp.status_code >= 500

\* get_access_token, line 59
TokenRejected(resp) == resp.status_code # 200

\* get_access_token, lines 59-71: the identity endpoint's answer
TokenResponse(r, resp, outcome) ==
  /\ req[r].pc = "token_post"
  /\ LET rec == [req[r] EXCEPT !.token_resp = Some(resp)]
     IN IF resp.kind = "neterr"
          THEN /\ Fail(r, rec, database, resp.message, outcome)
               /\ UNCHANGED <<cached_token, token_expires_at>>
        ELSE IF TokenRejected(resp)
          THEN /\ Fail(r, rec, database,
                       "UAA authentication failed: " \o CodeStr(resp.status_code)
                         \o " - " \o resp.text, outcome)
               /\ UNCHANGED <<cached_token, token_expires_at>>
        ELSE IF IsNone(resp.access_token)
          THEN /\ Fail(r, rec, database, "'access_token'", outcome)
               /\ UNCHANGED <<cached_token, token_expires_at>>
        ELSE /\ cached_token' = StoreToken(resp, clock).cached_token
             /\ token_expires_at' = StoreToken(resp, clock).token_expires_at
             /\ OpenForUpload(r, [rec EXCEPT !.access_token =
                                    StoreToken(resp, clock).cached_token], outcome)
  /\ UNCHANGED <<call, clock, upload_dir, started>>

\* _upload_document, lines 107-116
UploadAcceptedAnyStatus(resp) == Truthy(resp.id)

UploadAccepted(resp) == resp.status_code \in {200, 201} /\ Truthy(resp.id)

UploadError(resp) ==
  IF resp.status_code \notin {200, 201}
    THEN "Document upload failed: " \o CodeStr(resp.status_code) \o " - " \o resp.text
    ELSE "No document ID returned from upload"

\* _upload_document, lines 99-118: the file is sent, the vendor answers, and
\* on success the first poll request is sent
UploadResponse(r, resp, outcome) ==
  /\ req[r].pc = "upload_post"
  /\ LET rec == [req[r] EXCEPT !.sent = Some(inodes[req[r].rfd]), !.rfd = 0,
                               !.upload_resp = Some(resp)]
     IN IF resp.kind = "neterr"
          THEN Fail(r, rec, database, resp.message, outcome)
        ELSE IF ~UploadAccepted(resp)
          THEN Fail(r, rec, database, UploadError(resp), outcome)
        ELSE LET rq2 == [req EXCEPT ![r] =
                           [rec EXCEPT !.document_id = resp.id, !.pc = "poll",
                                       !.polls = 1]]
             IN /\ req' = rq2
                /\ inodes' = Gc(inodes, dir, rq2)
                /\ UNCHANGED <<dir, database>>
  /\ UNCHANGED <<call, clock, cached_token, token_expires_at, upload_dir, started>>

(***************************************************************************)
(* _poll_for_results: the decision on one answer, the loop bound.          *)
(***************************************************************************)
PollDecisionRetriesUnknown(result) ==
  IF result.status = Some("DONE") THEN "return"
  ELSE IF result.status = Some("FAILED") THEN "failed"
  ELSE "sleep"

PollDecisionParsesFailed(result) ==
  IF result.status \in {Some("DONE"), Some("FAILED")} THEN "return"
  ELSE IF result.status \in {Some("PENDING"), Some("RUNNING")} THEN "sleep"
  ELSE "unknown"

\* lines 145-153
PollDecision(result) ==
  IF result.status = Some("DONE") THEN "return"
  ELSE IF result.status = Some("FAILED") THEN "failed"
  ELSE IF result.status \in {Some("PENDING"), Some("RUNNING")} THEN "sleep"
  ELSE "unknown"

PollError(result) ==
  IF PollDecision(result) = "failed"
    THEN "Document extraction failed: "
           \o (IF IsNone(result.error) THEN "Unknown error" ELSE Val(result.error))
    ELSE "Unknown status: "
           \o (IF IsNone(result.status) THEN "None" ELSE Val(result.status))

LoopContinuesOneMore(attempt) == attempt <= max_poll_attempts

LoopContinuesAlways(attempt) == TRUE

\* for attempt in range(self.max_poll_attempts)
LoopContinues(attempt) == attempt < max_poll_attempts

TimeoutError ==
  "Extraction timeout after " \o NumStr(max_poll_attempts * poll_interval) \o " seconds"

\* round(file_size_kb, 2), in hundredths of a kilobyte
RoundKb(file_size_bytes) == RoundHalfEven(file_size_bytes * 100, 1024)

UploadResponseBody(invoice_id, parsed, rec) ==
  [invoice_id |-> invoice_id, invoice_number |-> parsed.invoice_number,
   vendor_name |-> parsed.vendor_name, file_name |-> rec.file_name,
   file_size_kb |-> RoundKb(rec.content_len),
   confidence_score |-> parsed.confidence_score, status |-> "PROCESSED"]

ProcessedRowNoName(parsed, rec) ==
  Row(parsed.invoice_number, parsed.vendor_name, <<>>, rec.content_len,
      parsed.raw_json, "PROCESSED", None)

\* invoice_router.py lines 79-86
ProcessedRow(parsed, rec) ==
  Row(parsed.invoice_number, parsed.vendor_name, rec.file_name, rec.content_len,
      parsed.raw_json, "PROCESSED", None)

\* one answer to a poll (lines 135-153); on DONE the result is parsed and the
\* handler stores the record and answers (invoice_router.py lines 77-98), all
\* without an await
PollResponse(r, resp, pendCap, outcome1, outcome2) ==
  /\ req[r].pc = "poll"
  /\ LET rec == [req[r] EXCEPT !.last_poll = Some(resp)]
     IN IF resp.kind = "neterr"
          THEN Fail(r, rec, database, resp.message, outcome2)
        ELSE IF resp.status_code # 200
          THEN Fail(r, rec, database,
                    "Polling failed: " \o CodeStr(resp.status_code) \o " - "
                      \o resp.text, outcome2)
        ELSE IF PollDecision(resp) = "return"
          THEN LET parsed == _parse_extraction_results(resp)
                   ins == insert_invoice(database, ProcessedRow(parsed, rec), outcome1)
                   rec1 == [rec EXCEPT !.extraction_result = Some(resp)]
                   rec2 == [rec1 EXCEPT !.db_ops =
                              Append(@, DbOp(ProcessedRow(parsed, rec), ins, outcome1))]
               IN IF ~parsed.ok
                    THEN Fail(r, rec1, database, parsed.error, outcome2)
                  ELSE IF ins.raised
                    THEN Fail(r, rec2, ins.database, ins.error, outcome2)
                  ELSE /\ database' = ins.database
                       /\ Finish(r, rec2,
                            Resp(200, "Invoice processed successfully",
                                 Some(UploadResponseBody(ins.invoice_id, parsed, rec))))
        ELSE IF PollDecision(resp) = "sleep"
          THEN /\ rec.attempt < pendCap
               /\ req' = [req EXCEPT ![r] =
                            [rec EXCEPT !.pc = "sleep", !.pendings = @ + 1]]
               /\ UNCHANGED <<dir, inodes, database>>
        ELSE Fail(r, rec, database, PollError(resp), outcome2)
  /\ UNCHANGED <<call, clock, cached_token, token_expires_at, upload_dir, started>>

\* asyncio.sleep(poll_interval) returns: the next iteration polls again, or
\* the loop is exhausted and line 155 raises the timeout
Sleep(r, outcome) ==
  /\ req[r].pc = "sleep"
  /\ LET rec == [req[r] EXCEPT !.sleeps = @ + 1, !.attempt = @ + 1]
     IN IF LoopContinues(rec.attempt)
          THEN /\ req' = [req EXCEPT ![r] = [rec EXCEPT !.pc = "poll", !.polls = @ + 1]]
               /\ UNCHANGED <<dir, inodes, database>>
          ELSE Fail(r, rec, database, TimeoutError, outcome)
  /\ UNCHANGED <<call, clock, cached_token, token_expires_at, upload_dir, started>>

\* time passes
Tick(step, max) ==
  /\ clock + step <= max
  /\ clock' = clock + step
  /\ UNCHANGED <<call, cached_token, token_expires_at, upload_dir, dir, inodes,
                 database, started, req>>

\* the response has been sent; the slot serves the next upload request
NextRequest(r, cap) ==
  /\ req[r].pc = "done"
  /\ started < cap
  /\ req' = [req EXCEPT ![r] = IdleReq]
  /\ UNCHANGED <<call, clock, cached_token, token_expires_at, upload_dir, dir, inodes,
                 database, started>>

(***************************************************************************)
(* The persistence gateway called on its own: insert_invoice, get_invoice, *)
(* get_all_invoices, test_connection.  call holds the last call: its       *)
(* arguments, the driver calls it made, and what it returned or raised.    *)
(***************************************************************************)
\* get_invoice, get_all_invoices and test_connection leave the store as it
\* was: a behaviour makes its inserts first and ends with one of them
NothingReadYet == call.op \in {"none", "insert_invoice"}

\* the routes GET /invoices/{invoice_id} and GET /invoices around the
\* gateway call: an error of the call is not caught by the route
EndpointResponse(op, args, c, result) ==
  CASE op = "get_invoice" ->
         Some(IF c.raised
                THEN global_exception_handler(Url("/api/v1/invoices/{invoice_id}", args),
                                              c.error)
              ELSE IF result = None
                THEN Resp(404, "Invoice with ID " \o IdStr(args[1]) \o " not found", None)
              ELSE Resp(200, "", result))
    [] op = "get_all_invoices" ->
         Some(IF c.raised
                THEN global_exception_handler(Url("/api/v1/invoices", args), c.error)
                ELSE Resp(200, "", Some(result)))
    [] OTHER -> None

Called(op, outcome, args, c, result) ==
  [op |-> op, outcome |-> outcome, args |-> args, calls |-> c.calls,
   raised |-> c.raised, error |-> c.error,
   result |-> IF c.raised THEN None ELSE Some(result),
   response |-> EndpointResponse(op, args, c, result)]

GatewayRows ==
  {Row("INV-1", "Acme", A_PDF, 2048, JsonDumps("r"), "PROCESSED", None),
   Row("UNKNOWN", "UNKNOWN", B_PDF_UPPER, 0, None, "FAILED", Some("boom"))}

InsertCall(row, outcome, maxRows, maxIdentity) ==
  /\ NothingReadYet
  /\ Len(database.rows) < maxRows
  /\ database.identity < maxIdentity
  /\ LET ins == insert_invoice(database, row, outcome)
     IN /\ database' = ins.database
        /\ call' = Called("insert_invoice", outcome, <<row>>, ins, ins.invoice_id)
  /\ UNCHANGED <<clock, cached_token, token_expires_at, upload_dir, dir, inodes,
                 started, req>>

\* get_invoice, lines 130-149: the SELECT runs in the scoped connection
GetCall(invoice_id, outcome) ==
  /\ NothingReadYet
  /\ call' = Called("get_invoice", outcome, <<invoice_id>>, get_connection(outcome),
                    get_invoice(database, invoice_id))
  /\ UNCHANGED <<clock, cached_token, token_expires_at, upload_dir, dir, inodes,
                 database, started, req>>

\* test_connection, lines 208-213: SELECT 1 FROM DUMMY yields 1
PingCall(outcome) ==
  /\ NothingReadYet
  /\ call' = Called("test_connection", outcome, <<>>, get_connection(outcome), TRUE)
  /\ UNCHANGED <<clock, cached_token, token_expires_at, upload_dir, dir, inodes,
                 database, started, req>>

ListCall(limit, offset, outcome) ==
  /\ NothingReadYet
  /\ \E ordering \in Orderings(database.rows) :
       call' = Called("get_all_invoices", outcome, <<limit, offset>>,
                      get_connection(outcome),
                      InvoiceListResponse(
                        get_all_invoices(database, limit, offset, ordering),
                        limit, offset))
  /\ UNCHANGED <<clock, cached_token, token_expires_at, upload_dir, dir, inodes,
                 database, started, req>>

\* health_check: the ping and the configuration read are each wrapped in
\* try/except, so the handler always returns a response
HealthCall(outcome, dummy, dox_config, key_file) ==
  /\ NothingReadYet
  /\ call' = [op |-> "health_check", outcome |-> outcome,
              args |-> <<dummy, dox_config, key_file>>,
              calls |-> get_connection(outcome).calls, raised |-> FALSE,
              error |-> "",
              result |-> Some(health_check(outcome, dummy, dox_config, key_file))]
  /\ UNCHANGED <<clock, cached_token, token_expires_at, upload_dir, dir, inodes,
                 database, started, req>>

\* the store's clock advances
StoreTick(max) ==
  /\ NothingReadYet
  /\ database.now < max
  /\ database' = [database EXCEPT !.now = @ + 1]
  /\ UNCHANGED <<clock, cached_token, token_expires_at, upload_dir, dir, inodes,
                 started, req, call>>

(***************************************************************************)
(* The result parser called on its own, on a DONE answer with any field    *)
(* list.                                                                   *)
(***************************************************************************)
ParseCall(header_fields) ==
  /\ call.op = "none"
  /\ LET extraction_result ==
           VendorResp(200, "", Some("job-1"), Some("DONE"), None, header_fields)
         parsed == _parse_extraction_results(extraction_result)
     IN call' = [op |-> "_parse_extraction_results", outcome |-> "ok",
                 args |-> <<header_fields>>, calls |-> <<>>,
                 raised |-> ~parsed.ok, error |-> parsed.error,
                 result |-> IF parsed.ok THEN Some(parsed) ELSE None]
  /\ UNCHANGED <<clock, cached_token, token_expires_at, upload_dir, dir, inodes,
                 database, started, req>>

(***************************************************************************)
(* Specifications.                                                         *)
(***************************************************************************)
NoExpiry == {None}

HandlerFields == {FieldsOk, FieldsNoSender, FieldsNoNumber, FieldsDup}

\* Spec: one upload request, every input of the handler, the whole poll loop
Next ==
  \/ Receive(1, FileNames, FileSizes)
  \/ \E opened \in BOOLEAN, o \in DbOutcomes : OpenTemp(1, opened, o)
  \/ RejectTooLarge(1)
  \/ WriteTemp(1)
  \/ \E o \in DbOutcomes : GetToken(1, o)
  \/ \E resp \in TokenResponses(NoExpiry), o \in DbOutcomes : TokenResponse(1, resp, o)
  \/ \E resp \in UploadResponses, o \in DbOutcomes : UploadResponse(1, resp, o)
  \/ \E resp \in PendingResponses :
       PollResponse(1, resp, max_poll_attempts, "ok", "ok")
  \/ \E resp \in TerminalErrorResponses, o \in DbOutcomes :
       PollResponse(1, resp, max_poll_attempts, "ok", o)
  \/ \E resp \in DoneResponses(HandlerFields), o1 \in DbOutcomes, o2 \in DbOutcomes :
       PollResponse(1, resp, max_poll_attempts, o1, o2)
  \/ \E o \in DbOutcomes : Sleep(1, o)

Spec == Init /\ [][Next]_vars

\* the steps of a request once it is received: each is the return of an
\* await (a file operation, a vendor or store call, a sleep), and every
\* such call eventually returns, with a result or with an error
LiveOutcomes == {"ok", "close_error"}

LiveNames == {A_PDF, A_TXT}

LiveSizes == {max_size_bytes, max_size_bytes + 1}

Returns ==
  \/ \E opened \in BOOLEAN, o \in LiveOutcomes : OpenTemp(1, opened, o)
  \/ RejectTooLarge(1)
  \/ WriteTemp(1)
  \/ \E o \in LiveOutcomes : GetToken(1, o)
  \/ \E resp \in TokenResponses(NoExpiry), o \in LiveOutcomes :
       TokenResponse(1, resp, o)
  \/ \E resp \in UploadResponses, o \in LiveOutcomes : UploadResponse(1, resp, o)
  \/ \E resp \in PendingResponses :
       PollResponse(1, resp, max_poll_attempts, "ok", "ok")
  \/ \E resp \in TerminalErrorResponses, o \in LiveOutcomes :
       PollResponse(1, resp, max_poll_attempts, "ok", o)
  \/ \E resp \in DoneResponses(HandlerFields), o1 \in LiveOutcomes, o2 \in LiveOutcomes :
       PollResponse(1, resp, max_poll_attempts, o1, o2)
  \/ \E o \in LiveOutcomes : Sleep(1, o)

NextLive == Receive(1, LiveNames, LiveSizes) \/ Returns

InitLive == Init /\ database.rows = <<>>

SpecLive == InitLive /\ [][NextLive]_vars /\ WF_vars(Returns)

\* SpecToken: upload requests one after the other while time passes, the
\* identity endpoint answering with every kind of expiry; the vendor rejects
\* each job, which ends the request right after the token step
TokenExpiries == {None, Some(300), Some(450), Some(600)}

RejectingUploads == {VendorResp(500, "Internal Server Error", None, None, None, <<>>)}

NextToken ==
  \/ Receive(1, {A_PDF}, {2048})
  \/ OpenTemp(1, TRUE, "ok")
  \/ WriteTemp(1)
  \/ GetToken(1, "ok")
  \/ \E resp \in TokenResponses(TokenExpiries) : TokenResponse(1, resp, "ok")
  \/ \E resp \in RejectingUploads : UploadResponse(1, resp, "ok")
  \/ NextRequest(1, MaxTokenCalls)
  \/ Tick(TokenTick, MaxTokenClock)

SpecToken == Init /\ [][NextToken]_vars

\* SpecConc: two upload requests served concurrently, interleaved at their
\* awaits
ConcNames == {A_PDF, B_PDF_UPPER}

ConcSizes == {2048, max_size_bytes}

ConcDbOutcomes == {"ok"}

ConcTokenResponses == {TokenResp(200, "", Some("tokB"), None)}

ConcUploads ==
  {VendorResp(201, "", Some("job-1"), Some("PENDING"), None, <<>>),
   VendorResp(500, "Internal Server Error", None, None, None, <<>>)}

NextConc ==
  \E r \in Slots :
    \/ Receive(r, ConcNames, ConcSizes)
    \/ \E o \in ConcDbOutcomes : OpenTemp(r, TRUE, o)
    \/ WriteTemp(r)
    \/ \E o \in ConcDbOutcomes : GetToken(r, o)
    \/ \E resp \in ConcTokenResponses, o \in ConcDbOutcomes : TokenResponse(r, resp, o)
    \/ \E resp \in ConcUploads, o \in ConcDbOutcomes : UploadResponse(r, resp, o)
    \/ \E resp \in PendingResponses : PollResponse(r, resp, ShortPolls, "ok", "ok")
    \/ \E resp \in DoneResponses({FieldsOk}), o \in ConcDbOutcomes :
         PollResponse(r, resp, ShortPolls, o, "ok")
    \/ Sleep(r, "ok")
    \/ Tick(1, MaxClock)

InitConc == Init /\ database.rows = <<>>

SpecConc == InitConc /\ [][NextConc]_vars

\* SpecRefresh: two requests call get_access_token concurrently, on an empty
\* cache or on one that went stale, and the identity endpoint gives each
\* request its own token and lifetime
RefreshResponses ==
  {TokenResp(200, "", Some("tokB"), Some(TOKEN_BUFFER + 1)),
   TokenResp(200, "", Some("tokC"), Some(600)),
   TokenResp(401, "Unauthorized", None, None)}

NextRefresh ==
  \E r \in Slots :
    \/ Receive(r, {A_PDF}, {2048})
    \/ OpenTemp(r, TRUE, "ok")
    \/ WriteTemp(r)
    \/ GetToken(r, "ok")
    \/ \E resp \in RefreshResponses : TokenResponse(r, resp, "ok")
    \/ \E resp \in RejectingUploads : UploadResponse(r, resp, "ok")
    \/ NextRequest(r, MaxRefreshCalls)
    \/ Tick(1, MaxClock)

SpecRefresh == InitConc /\ [][NextRefresh]_vars

\* SpecParse: the parser applied to every list of up to MaxFields fields
ParseFields ==
  {Field(n, v, c) :
     n \in {"invoiceNumber"}, v \in {Some(""), Some("INV-1"), Some("INV-2")},
     c \in {0, 80, 90}}
    \cup {Field(n, v, c) :
            n \in {"senderName"}, v \in {None, Some("Acme"), Some("Bolt")},
            c \in {0, 80, 90}}
    \cup {Field(n, v, c) :
            n \in {"receiverName"}, v \in {Some("Bob")}, c \in {0, 80, 90}}

FieldLists == UNION {[1..k -> ParseFields] : k \in 0..MaxFields}

\* one call per behaviour: the parser keeps no state between calls
NextParse ==
  /\ call.op = "none"
  /\ \E header_fields \in FieldLists : ParseCall(header_fields)

InitParse == Init /\ database.rows = <<>> /\ cached_token = None

SpecParse == InitParse /\ [][NextParse]_vars

\* SpecDb: the gateway's operations called one after the other on a store
\* of up to MaxRows rows, each with every outcome of the driver calls
GetIds == 1..3

ListLimits == {1, 2, 50}

ListOffsets == {0, 1, 3}

NextDb ==
  \/ \E row \in GatewayRows : InsertCall(row, "ok", MaxRows, MaxIdentity)
  \/ \E o \in ScopeOutcomes :
       InsertCall(Row("INV-1", "Acme", A_PDF, 2048, JsonDumps("r"), "PROCESSED", None),
                  o, MaxRows, MaxIdentity)
  \/ \E id \in GetIds : GetCall(id, "ok")
  \/ \E o \in ScopeOutcomes : GetCall(2, o)
  \/ \E o \in ScopeOutcomes : PingCall(o)
  \/ \E limit \in ListLimits, offset \in ListOffsets : ListCall(limit, offset, "ok")
  \/ \E o \in ScopeOutcomes : ListCall(50, 0, o)
  \/ \E o \in ScopeOutcomes : HealthCall(o, 1, None, None)
  \/ StoreTick(MaxStoreClock)

InitDb == Init /\ cached_token = None /\ database.rows = <<>>

SpecDb == InitDb /\ [][NextDb]_vars

\* the health check on every ping outcome and every service key file
KeyEntries == {None, Some(""), Some("https://x")}

KeyFiles == {None} \cup {Some([uaa_url |-> u, url |-> d]) : u \in KeyEntries, d \in KeyEntries}

Singletons == {None, Some([uaa_url |-> Some("https://x"), url |-> Some("https://x")])}

NextHealth ==
  \E o \in ScopeOutcomes, dummy \in {0, 1}, dox_config \in Singletons,
     key_file \in KeyFiles :
    HealthCall(o, dummy, dox_config, key_file)

SpecHealth == InitDb /\ [][NextHealth]_vars

\* every route on every error: the two read routes after some inserts, with
\* every outcome of the scoped connection, or one upload request, whose
\* directory creation may fail as well
NextErr ==
  \/ \E row \in GatewayRows :
       req[1].pc = "idle" /\ InsertCall(row, "ok", MaxRows, MaxIdentity)
  \/ \E id \in GetIds, o \in ScopeOutcomes : req[1].pc = "idle" /\ GetCall(id, o)
  \/ \E limit \in ListLimits, offset \in ListOffsets, o \in ScopeOutcomes :
       req[1].pc = "idle" /\ ListCall(limit, offset, o)
  \/ call.op = "none" /\ Receive(1, LiveNames, LiveSizes)
  \/ call.op = "none" /\ MkdirFails(1, LiveNames, LiveSizes)
  \/ Returns

SpecErr == InitLive /\ [][NextErr]_vars

(***************************************************************************)
(* Properties.  The history fields of req (cache_seen, token_resp,         *)
(* upload_resp, last_poll, db_ops, the counters) record what the request   *)
(* saw and did.                                                            *)
(***************************************************************************)
NonPdfNames == {A_TXT, PDF_NO_DOT, A_PDF_TXT}

StatusCode(r) == Val(req[r].response).status_code

ExtractInvoked(r) == req[r].cache_seen # None

ProcessedAttempted(r) ==
  \E i \in 1..Len(req[r].db_ops) : req[r].db_ops[i].row.status = "PROCESSED"

\* the extraction client or the parser failed: extract_invoice_data was
\* entered, the request is over, and the handler never got to the primary insert
ExtractionFailed(r) ==
  req[r].pc = "done" /\ ExtractInvoked(r) /\ ~ProcessedAttempted(r)

\* C1 as stated: whatever the interleaving of two upload requests, the
\* temporary file a request hands to the extraction client holds that
\* request's own bytes, and it exists from the request's write to the
\* request's own cleanup.
C1_Original ==
  \A r \in Slots :
    /\ (req[r].pc = "upload_post" =>
          inodes[req[r].rfd] = Bytes(r, req[r].content_len))
    /\ (req[r].sent # None => Val(req[r].sent) = Bytes(r, req[r].content_len))
    /\ (req[r].pc \in {"close", "token_post", "upload_post", "poll", "sleep"} =>
          Val(req[r].temp_filepath) \in DOMAIN dir)
    /\ req[r].error_message # Some("[Errno 2] No such file or directory")

\* C2: a call of get_access_token that finds a token cached with
\* now < expiry - 300 returns that token and sends nothing to the identity
\* endpoint; any other call sends exactly one request, and on success the
\* new token is returned and cached with expiry now + expires_in, 43200 when
\* expires_in is absent.
C2_CacheDecision ==
  \A r \in Slots :
    req[r].cache_seen # None =>
      LET seen == Val(req[r].cache_seen)
      IN IF seen.cached_token # None /\ seen.now < seen.token_expires_at - 300
           THEN /\ req[r].uaa_posts = 0
                /\ req[r].token_resp = None
                /\ req[r].access_token = seen.cached_token
           ELSE /\ req[r].uaa_posts = 1
                /\ (req[r].token_resp = None => req[r].pc = "token_post")

C2_StoreStep ==
  \A r \in Slots :
    (req[r].pc = "token_post" /\ req'[r].pc # "token_post") =>
      LET resp == Val(req'[r].token_resp)
      IN (resp.kind = "http" /\ resp.status_code = 200 /\ resp.access_token # None) =>
           /\ req'[r].access_token = resp.access_token
           /\ cached_token' = resp.access_token
           /\ token_expires_at' =
                clock + (IF resp.expires_in = None THEN 43200 ELSE Val(resp.expires_in))

\* C2: the cache decision holds in every state and the storing step in every
\* step of every sequence of get_access_token calls and clock advances.
C2_TokenReuseAndRefresh == []C2_CacheDecision /\ [][C2_StoreStep]_vars

C2_Witness ==
  /\ started = 2 /\ req[1].cache_seen # None
  /\ Val(req[1].cache_seen).cached_token = Some("tokA")
  /\ Val(req[1].cache_seen).now = Val(req[1].cache_seen).token_expires_at - 300
  /\ req[1].uaa_posts = 1
  /\ req[1].access_token = Some("tokB")
  /\ cached_token = Some("tokB")

\* C3: k PENDING/RUNNING answers (k < 30) followed by DONE make exactly k + 1
\* polls and k sleeps and the DONE answer is what the loop returns; 30
\* PENDING/RUNNING answers end in the timeout error after exactly 30 polls;
\* a 31st poll is never sent.
C3_PollLoop ==
  \A r \in Slots :
    /\ req[r].polls <= 30
    /\ (req[r].extraction_result # None =>
          /\ req[r].pendings < 30
          /\ req[r].polls = req[r].pendings + 1
          /\ req[r].sleeps = req[r].pendings
          /\ req[r].extraction_result = req[r].last_poll
          /\ Val(req[r].last_poll).status = Some("DONE"))
    /\ (req[r].pendings = 30 =>
          /\ req[r].polls = 30
          /\ req[r].pc \in {"sleep", "done"}
          /\ (req[r].pc = "done" =>
                /\ req[r].error_message = Some("Extraction timeout after 60 seconds")
                /\ StatusCode(r) = 422))

C3_Witness ==
  /\ req[1].pc = "done" /\ req[1].extraction_result # None
  /\ req[1].pendings = 2 /\ req[1].sleeps = 2 /\ req[1].polls = 3

\* C4: an upload whose file name does not end in ".pdf" (case-insensitively)
\* is answered 400 at once: no temporary file or upload directory is created,
\* the token cache, the identity endpoint, the vendor and the store are never
\* called, and no record is inserted.
C4_NonPdfRejectedFirst ==
  \A r \in Slots :
    (req[r].pc # "idle" /\ req[r].file_name \in NonPdfNames) =>
      /\ req[r].pc = "done"
      /\ req[r].response =
           Some(Resp(400, "Invalid file type. Only PDF files are allowed.", None))
      /\ req[r].temp_filepath = None
      /\ DOMAIN dir = {} /\ DOMAIN inodes = {} /\ upload_dir = FALSE
      /\ req[r].cache_seen = None /\ req[r].uaa_posts = 0
      /\ req[r].job_posts = 0 /\ req[r].polls = 0
      /\ req[r].db_ops = <<>> /\ database \in InitialDatabases

C4_Witness ==
  /\ req[1].pc = "done" /\ req[1].file_name = PDF_NO_DOT
  /\ StatusCode(1) = 400

C6_SizeLimit ==
  \A r \in Slots :
    req[r].has_size =>
      IF req[r].content_len > MAX_FILE_SIZE_MB * 1024 * 1024
        THEN /\ req[r].pc \in {"reject", "done"}
             /\ req[r].cache_seen = None /\ req[r].uaa_posts = 0
             /\ req[r].job_posts = 0 /\ req[r].polls = 0 /\ req[r].sent = None
             /\ req[r].db_ops = <<>> /\ database \in InitialDatabases
             /\ (req[r].pc = "done" =>
                   req[r].response =
                     Some(Resp(400, "File size exceeds maximum allowed size of 10MB", None)))
        ELSE /\ req[r].pc # "reject"
             /\ (req[r].pc = "done" => StatusCode(r) # 400)

C6_Witness ==
  /\ req[1].pc = "done" /\ req[1].content_len = max_size_bytes + 1
  /\ StatusCode(1) = 400 /\ req[1].temp_filepath # None

\* C7: when the token fetch, the vendor upload, the polling or the parsing of
\* a validated upload fails, the handler makes exactly one insert call, for a
\* row with status FAILED, invoice number and vendor name "UNKNOWN" and the
\* error text as error message, and answers 422 with that text, whether the
\* insert call succeeds or raises.
C7_FailedRecordThen422 ==
  \A r \in Slots :
    ExtractionFailed(r) =>
      /\ req[r].error_message # None
      /\ Len(req[r].db_ops) = 1
      /\ req[r].db_ops[1].row =
           Row("UNKNOWN", "UNKNOWN", req[r].file_name, req[r].content_len, None,
               "FAILED", req[r].error_message)
      /\ req[r].response =
           Some(Resp(422, "Failed to process invoice: " \o Val(req[r].error_message),
                     None))
      /\ (req[r].token_resp = Some(TokenResp(401, "Unauthorized", None, None)) =>
            req[r].error_message = Some("UAA authentication failed: 401 - Unauthorized"))
      /\ ((/\ req[r].upload_resp # None
           /\ Val(req[r].upload_resp).kind = "http"
           /\ Val(req[r].upload_resp).status_code = 500) =>
            req[r].error_message =
              Some("Document upload failed: 500 - Internal Server Error"))
      /\ ((/\ req[r].extraction_result # None
           /\ Val(req[r].extraction_result).headerFields = FieldsNoSender) =>
            req[r].error_message =
              Some("Error parsing extraction results: Vendor name not found in extraction results"))

C7_Witness ==
  /\ ExtractionFailed(1)
  /\ req[1].error_message = Some("Extraction timeout after 60 seconds")
  /\ req[1].db_ops[1].raised

C8_WitnessFailedStored ==
  /\ ExtractionFailed(1) /\ ~req[1].db_ops[1].raised
  /\ req[1].error_message = Some("Document extraction failed: unreadable scan")

\* C9: a poll answered with status FAILED ends the request with the vendor's
\* error, and one answered with any status other than DONE, FAILED, PENDING
\* and RUNNING (a missing status included) ends it with the unknown-status
\* error; no sleep and no poll follows that answer.
C9_TerminalStatusEndsPolling ==
  \A r \in Slots :
    (/\ req[r].last_poll # None
     /\ Val(req[r].last_poll).kind = "http"
     /\ Val(req[r].last_poll).status_code = 200
     /\ Val(req[r].last_poll).status \notin
          {Some("DONE"), Some("PENDING"), Some("RUNNING")}) =>
      LET result == Val(req[r].last_poll)
      IN /\ req[r].pc = "done"
         /\ StatusCode(r) = 422
         /\ req[r].polls = req[r].pendings + 1
         /\ req[r].sleeps = req[r].pendings
         /\ req[r].error_message =
              Some(IF result.status = Some("FAILED")
                     THEN "Document extraction failed: "
                            \o (IF result.error = None THEN "Unknown error"
                                ELSE Val(result.error))
                     ELSE "Unknown status: "
                            \o (IF result.status = None THEN "None"
                                ELSE Val(result.status)))

C9_Witness ==
  /\ req[1].pc = "done" /\ req[1].pendings = 1
  /\ req[1].last_poll # None
  /\ Val(req[1].last_poll).status = None
  /\ Val(req[1].last_poll).kind = "http"
  /\ Val(req[1].last_poll).status_code = 200

\* C10: when the insert of the PROCESSED record raises, the handler makes the
\* best-effort FAILED insert call and answers with an error that carries the
\* text of the primary insert's error, whether the second call raises or not.
C10_PrimaryInsertErrorSurfaced ==
  \A r \in Slots :
    (/\ req[r].pc = "done"
     /\ Len(req[r].db_ops) >= 1
     /\ req[r].db_ops[1].row.status = "PROCESSED"
     /\ req[r].db_ops[1].raised) =>
      /\ req[r].response =
           Some(Resp(422, "Failed to process invoice: "
                            \o DbErrorText(req[r].db_ops[1].outcome), None))
      /\ Len(req[r].db_ops) = 2
      /\ req[r].db_ops[2].row.status = "FAILED"
      /\ req[r].db_ops[2].row.error_message =
           Some(DbErrorText(req[r].db_ops[1].outcome))

C10_Witness ==
  /\ req[1].pc = "done" /\ Len(req[1].db_ops) = 2
  /\ req[1].db_ops[1].row.status = "PROCESSED"
  /\ req[1].db_ops[1].outcome = "commit_error"
  /\ req[1].db_ops[2].raised
\* C11 as stated: every gateway operation calls commit only if its body
\* completed without error; if the body or the commit raises, rollback is
\* called and that error is raised to the caller; and whenever a connection
\* was opened, close is called exactly once, as the last call.
C11_Original ==
  call.op \in {"insert_invoice", "get_invoice", "get_all_invoices", "test_connection"} =>
    LET raising == RaisingCalls(call.outcome)
        Count(c) == Cardinality({i \in 1..Len(call.calls) : call.calls[i] = c})
        opened == "connect" \notin raising
        failed == {c \in {"execute", "commit"} : c \in raising /\ Count(c) = 1}
    IN /\ (Count("commit") > 0 => "execute" \notin raising)
       /\ (opened /\ failed # {} =>
             /\ Count("rollback") = 1
             /\ call.raised
             /\ \E c \in failed : call.error = CallErrorText(c))
       /\ (opened => Count("close") = 1 /\ call.calls[Len(call.calls)] = "close")

\* C11 amended: as stated, except that the error raised to the caller is the
\* body's or the commit's error only when neither rollback nor close raises;
\* when rollback or close raises, the caller gets that later error; rollback
\* is called once, only after a failed body or commit; a call that raised
\* nothing returns its result, and a connection that was never opened is
\* neither rolled back nor closed.
C11_ScopedConnection ==
  call.op \in {"insert_invoice", "get_invoice", "get_all_invoices", "test_connection"} =>
    LET raising == RaisingCalls(call.outcome)
        Count(c) == Cardinality({i \in 1..Len(call.calls) : call.calls[i] = c})
        Pos(c) == CHOOSE i \in 1..Len(call.calls) : call.calls[i] = c
        opened == "connect" \notin raising
        failed == {c \in {"execute", "commit"} : c \in raising /\ Count(c) = 1}
    IN /\ call.calls[1] = "connect" /\ Count("connect") = 1
       /\ Count("commit") <= 1
       /\ (Count("commit") = 1 <=> (opened /\ "execute" \notin raising))
       /\ (Count("rollback") = 1 <=> (opened /\ failed # {}))
       /\ Count("rollback") <= 1
       /\ (Count("rollback") = 1 /\ Count("commit") = 1 => Pos("commit") < Pos("rollback"))
       /\ (opened /\ failed # {} =>
             /\ call.raised
             /\ IF "rollback" \in raising \/ "close" \in raising
                  THEN call.error \in {"Rollback failed", "Close failed"}
                  ELSE \E c \in failed : call.error = CallErrorText(c))
       /\ (opened => Count("close") = 1 /\ call.calls[Len(call.calls)] = "close")
       /\ (~opened => call.calls = <<"connect">> /\ call.raised
                        /\ call.error = "Connection failed")
       /\ (call.raised <=> call.result = None)
       /\ (call.raised <=> raising # {})

C11_Witness ==
  /\ call.op = "insert_invoice" /\ call.outcome = "commit_error"
  /\ call.calls = <<"connect", "execute", "commit", "rollback", "close">>
  /\ call.raised /\ call.error = "Commit failed"

C11_WitnessRead ==
  /\ call.op = "get_invoice" /\ call.outcome = "ok"
  /\ call.result = Some(None) /\ call.calls[Len(call.calls)] = "close"

\* C12: however concurrent get_access_token calls on an empty or stale cache
\* interleave, a call that returns yields the token of its own endpoint
\* response or, on a cache hit, the cached token it found valid; the cached
\* token and expiry always come from one and the same response; and no call
\* sends more than one token request.
C12_ConcurrentRefresh ==
  /\ \A r \in Slots :
       /\ req[r].uaa_posts <= 1
       /\ (req[r].access_token # None =>
             /\ req[r].cache_seen # None
             /\ req[r].access_token \in {Some("tokA"), Some("tokB"), Some("tokC")}
             /\ IF req[r].uaa_posts = 0
                  THEN LET seen == Val(req[r].cache_seen)
                       IN /\ req[r].access_token = seen.cached_token
                          /\ seen.now < seen.token_expires_at - 300
                  ELSE /\ req[r].token_resp # None
                       /\ Val(req[r].token_resp).status_code = 200
                       /\ req[r].access_token = Val(req[r].token_resp).access_token)
  /\ (cached_token = None => token_expires_at = 0)
  /\ (cached_token = Some("tokA") => token_expires_at = 43200)
  /\ (cached_token = Some("tokB") => token_expires_at - 301 \in 0..clock)
  /\ (cached_token = Some("tokC") => token_expires_at - 600 \in 0..clock)
  /\ cached_token \in {None, Some("tokA"), Some("tokB"), Some("tokC")}

\* both requests found the cache empty and refreshed; the later response won
C12_Witness ==
  /\ req[1].uaa_posts = 1 /\ req[2].uaa_posts = 1
  /\ Val(req[1].cache_seen).cached_token = None
  /\ Val(req[2].cache_seen).cached_token = None
  /\ req[1].access_token = Some("tokB") /\ req[2].access_token = Some("tokC")
  /\ cached_token = Some("tokB") /\ token_expires_at = 302

\* a request refreshed a cache that another request's token had left stale
C12_WitnessStale ==
  \E r \in Slots :
    /\ req[r].cache_seen # None
    /\ Val(req[r].cache_seen).cached_token = Some("tokB")
    /\ req[r].uaa_posts = 1
    /\ req[r].access_token = Some("tokC")

\* C13: a non-200 answer of the identity endpoint ends get_access_token with
\* the authentication error, after the one request the call sent, and leaves
\* the cached token and expiry as they were.
C13_RejectedState ==
  \A r \in Slots :
    (/\ req[r].token_resp # None
     /\ Val(req[r].token_resp).kind = "http"
     /\ Val(req[r].token_resp).status_code # 200) =>
      /\ req[r].pc = "done"
      /\ req[r].uaa_posts = 1
      /\ req[r].access_token = None
      /\ req[r].job_posts = 0 /\ req[r].polls = 0
      /\ req[r].error_message =
           Some("UAA authentication failed: 401 - Unauthorized")
      /\ StatusCode(r) = 422

C13_RejectedStep ==
  \A r \in Slots :
    (/\ req[r].pc = "token_post"
     /\ req'[r].pc # "token_post"
     /\ Val(req'[r].token_resp).kind = "http"
     /\ Val(req'[r].token_resp).status_code # 200) =>
      /\ cached_token' = cached_token
      /\ token_expires_at' = token_expires_at
      /\ cached_token = Val(req[r].cache_seen).cached_token
      /\ token_expires_at = Val(req[r].cache_seen).token_expires_at

\* C13: the state part in every state, the step part in every step.
C13_AuthFailureLeavesCache == []C13_RejectedState /\ [][C13_RejectedStep]_vars

\* the second call found tokA stale, was rejected, and tokA is still cached
C13_Witness ==
  /\ started = 2 /\ req[1].pc = "done"
  /\ req[1].token_resp = Some(TokenResp(401, "Unauthorized", None, None))
  /\ Val(req[1].cache_seen).cached_token = Some("tokA")
  /\ cached_token = Some("tokA") /\ token_expires_at = 450
\* C14: when the vendor answers the upload with a status other than 200 and
\* 201, or without a non-empty job identifier, the extraction fails with the
\* upload error and no poll request is sent; an upload answered 200 or 201
\* with an identifier is followed by the first poll of that job.
C14_UploadFailureNoPoll ==
  \A r \in Slots :
    (req[r].upload_resp # None /\ Val(req[r].upload_resp).kind = "http") =>
      LET resp == Val(req[r].upload_resp)
      IN IF resp.status_code \notin {200, 201}
           THEN /\ req[r].pc = "done" /\ req[r].polls = 0 /\ req[r].sleeps = 0
                /\ req[r].document_id = None /\ req[r].extraction_result = None
                /\ req[r].error_message =
                     Some("Document upload failed: 500 - Internal Server Error")
                /\ StatusCode(r) = 422
         ELSE IF resp.id = None \/ resp.id = Some("")
           THEN /\ req[r].pc = "done" /\ req[r].polls = 0 /\ req[r].sleeps = 0
                /\ req[r].document_id = None /\ req[r].extraction_result = None
                /\ req[r].error_message = Some("No document ID returned from upload")
                /\ StatusCode(r) = 422
         ELSE /\ req[r].polls >= 1
              /\ req[r].document_id = resp.id

C14_Witness ==
  /\ req[1].pc = "done" /\ req[1].polls = 0
  /\ req[1].upload_resp = Some(VendorResp(201, "", Some(""), None, None, <<>>))
  /\ req[1].db_ops # <<>> /\ ~req[1].db_ops[1].raised

C14_WitnessStatus ==
  /\ req[1].pc = "done" /\ req[1].polls = 0
  /\ req[1].upload_resp # None
  /\ Val(req[1].upload_resp).status_code = 500
  /\ Val(req[1].upload_resp).id = Some("job-1")
\* C15: for every field list the parser accepts, the confidence score is the
\* mean, rounded to the nearest hundredth, of the confidences of all fields,
\* whatever their names, that are present and non-zero, and 0 when there is
\* none; invoiceNumber 'INV-1' (0.9) with senderName 'Acme' (0.8) gives
\* 'INV-1', 'Acme' and 0.85.
C15_ConfidenceIsMean ==
  (call.op = "_parse_extraction_results" /\ ~call.raised) =>
    LET header_fields == call.args[1]
        parsed == Val(call.result)
        rated == {i \in 1..Len(header_fields) : header_fields[i].confidence # 0}
        n == Cardinality(rated)
        total == SumSeq([i \in 1..Len(header_fields) |-> header_fields[i].confidence])
        gap == parsed.confidence_score * n - total
    IN /\ (n = 0 => parsed.confidence_score = 0)
       /\ (n > 0 => 2 * gap <= n /\ 2 * gap >= 0 - n)
       /\ (header_fields = <<Field("invoiceNumber", Some("INV-1"), 90),
                             Field("senderName", Some("Acme"), 80)>> =>
             /\ parsed.invoice_number = "INV-1"
             /\ parsed.vendor_name = "Acme"
             /\ parsed.confidence_score = 85)

\* three rated fields, one of them neither invoiceNumber nor senderName, and
\* a mean that has to be rounded up
C15_Witness ==
  /\ call.op = "_parse_extraction_results" /\ ~call.raised
  /\ call.args[1] = <<Field("invoiceNumber", Some("INV-1"), 80),
                      Field("receiverName", Some("Bob"), 90),
                      Field("senderName", Some("Acme"), 90)>>
  /\ Val(call.result).confidence_score = 87

\* C16: parsing fails with the field-missing error exactly when the list has
\* no invoiceNumber field with a non-empty value or no senderName field with
\* a non-empty value, whatever other fields it has.
C16_FieldMissing ==
  call.op = "_parse_extraction_results" =>
    LET header_fields == call.args[1]
        Has(name) == \E i \in 1..Len(header_fields) :
                       /\ header_fields[i].name = name
                       /\ header_fields[i].value \notin {None, Some("")}
    IN /\ (call.raised <=> ~(Has("invoiceNumber") /\ Has("senderName")))
       /\ (~Has("invoiceNumber") =>
             call.error = "Error parsing extraction results: Invoice number not found in extraction results")
       /\ (Has("invoiceNumber") /\ ~Has("senderName") =>
             call.error = "Error parsing extraction results: Vendor name not found in extraction results")
       /\ (call.raised <=> call.result = None)

C16_Witness ==
  /\ call.op = "_parse_extraction_results" /\ call.raised
  /\ call.args[1] = <<Field("invoiceNumber", Some("INV-1"), 90),
                      Field("senderName", None, 80),
                      Field("receiverName", Some("Bob"), 90)>>
  /\ call.error = "Error parsing extraction results: Vendor name not found in extraction results"

\* C17 as stated: with several non-empty invoiceNumber (or senderName)
\* fields, the parser returns the value of the first of them.
C17_Original ==
  (call.op = "_parse_extraction_results" /\ ~call.raised) =>
    LET header_fields == call.args[1]
        Matches(name) == {i \in 1..Len(header_fields) :
                            /\ header_fields[i].name = name
                            /\ header_fields[i].value \notin {None, Some("")}}
        First(name) == CHOOSE i \in Matches(name) : \A j \in Matches(name) : i <= j
    IN /\ Val(call.result).invoice_number = Val(header_fields[First("invoiceNumber")].value)
       /\ Val(call.result).vendor_name = Val(header_fields[First("senderName")].value)

\* C17 amended: with several non-empty invoiceNumber (or senderName) fields,
\* the parser returns the value of the last of them; a later field of that
\* name whose value is empty or absent changes nothing.
C17_LastNonEmptyMatchWins ==
  (call.op = "_parse_extraction_results" /\ ~call.raised) =>
    LET header_fields == call.args[1]
        Matches(name) == {i \in 1..Len(header_fields) :
                            /\ header_fields[i].name = name
                            /\ header_fields[i].value \notin {None, Some("")}}
        Last(name) == CHOOSE i \in Matches(name) : \A j \in Matches(name) : i >= j
    IN /\ Val(call.result).invoice_number = Val(header_fields[Last("invoiceNumber")].value)
       /\ Val(call.result).vendor_name = Val(header_fields[Last("senderName")].value)

C17_Witness ==
  /\ call.op = "_parse_extraction_results" /\ ~call.raised
  /\ call.args[1] = <<Field("senderName", Some("Acme"), 80),
                      Field("senderName", Some("Bolt"), 0),
                      Field("invoiceNumber", Some("INV-1"), 90)>>
  /\ Val(call.result).vendor_name = "Bolt"
C18_WitnessAll ==
  /\ call.op = "get_all_invoices" /\ ~call.raised
  /\ Len(database.rows) = 3 /\ call.args = <<50, 0>>
  /\ Val(call.result).total = 3
  /\ Val(Val(call.result).invoices[1].upload_timestamp) = 1
  /\ Val(Val(call.result).invoices[3].upload_timestamp) = 0

(***************************************************************************)
(* C19.  The health check answers 'healthy' exactly when the database ping *)
(* returned true and the service key holds a non-empty UAA URL and a       *)
(* non-empty service URL; otherwise it answers 'degraded' and its message  *)
(* lists exactly the failing items.  An error raised by the ping or by the *)
(* configuration read becomes a false flag; the check itself never raises. *)
(***************************************************************************)
C19_Health ==
  call.op = "health_check" =>
    LET r == Val(call.result)
        effective == IF call.args[2] # None THEN call.args[2] ELSE call.args[3]
        pinged == call.outcome = "ok" /\ call.args[1] = 1
        valid == /\ effective # None
                 /\ Truthy(Val(effective).uaa_url)
                 /\ Truthy(Val(effective).url)
    IN /\ ~call.raised
       /\ call.result # None
       /\ r.database_connected = pinged
       /\ r.document_ai_configured = valid
       /\ (r.status = "healthy") = (pinged /\ valid)
       /\ r.status \in {"healthy", "degraded"}
       /\ (pinged /\ valid => r.message = "All systems operational")
       /\ (pinged /\ ~valid => r.message = "Issues detected: document_ai")
       /\ (~pinged /\ valid => r.message = "Issues detected: database")
       /\ (~pinged /\ ~valid =>
             r.message = "Issues detected: database, document_ai")

\* the ping raised and no service key file exists: both items are listed
C19_Witness ==
  /\ call.op = "health_check"
  /\ call.outcome = "commit_rollback_error"
  /\ call.args[2] = None
  /\ call.args[3] = None
  /\ Val(call.result).status = "degraded"
  /\ Val(call.result).message = "Issues detected: database, document_ai"

\* the ping succeeded and the file lacks the service URL: one item is listed
C19_WitnessKeyError ==
  /\ call.op = "health_check"
  /\ call.outcome = "ok"
  /\ call.args[1] = 1
  /\ call.args[2] = None
  /\ call.args[3] = Some([uaa_url |-> Some("https://x"), url |-> None])
  /\ Val(call.result).message = "Issues detected: document_ai"

C19_WitnessHealthy ==
  /\ call.op = "health_check"
  /\ Val(call.result).status = "healthy"

(***************************************************************************)
(* C20.  An upload request goes through its steps in order: the token is   *)
(* obtained before the document is posted to the vendor, the post is       *)
(* accepted before the first poll, parsing starts only after a poll        *)
(* answered DONE, and a PROCESSED record is inserted only after parsing    *)
(* found both fields.  The step that fails records the failure, inserts    *)
(* the FAILED record and removes the temporary file; nothing else is done  *)
(* for that request afterwards.                                            *)
(***************************************************************************)
C20_Stage(pc) ==
  CASE pc = "idle" -> 0
    [] pc \in {"open", "reject", "write", "close"} -> 1
    [] pc \in {"token_post", "upload_post", "poll", "sleep"} -> 2
    [] OTHER -> 3

C20_HasField(extraction_result, name, value) ==
  \E i \in DOMAIN extraction_result.headerFields :
    /\ extraction_result.headerFields[i].name = name
    /\ extraction_result.headerFields[i].value = Some(value)

C20_Order ==
  \A r \in Slots :
    LET rec == req[r]
    IN /\ (rec.uaa_posts > 0 \/ rec.job_posts > 0) =>
            (rec.has_size /\ ~TooLarge(rec.content_len) /\ IsPdf(rec.file_name))
       /\ rec.job_posts > 0 =>
            /\ rec.job_posts = 1
            /\ rec.access_token # None
            /\ rec.token_resp # None =>
                 /\ Val(rec.token_resp).kind = "http"
                 /\ Val(rec.token_resp).status_code = 200
                 /\ rec.access_token = Val(rec.token_resp).access_token
       /\ rec.polls > 0 =>
            /\ rec.job_posts = 1
            /\ rec.upload_resp # None
            /\ Val(rec.upload_resp).kind = "http"
            /\ Val(rec.upload_resp).status_code \in {200, 201}
            /\ rec.document_id = Val(rec.upload_resp).id
            /\ rec.document_id \notin {None, Some("")}
       /\ rec.extraction_result # None =>
            /\ rec.polls > 0
            /\ rec.last_poll = rec.extraction_result
            /\ Val(rec.last_poll).kind = "http"
            /\ Val(rec.last_poll).status_code = 200
            /\ Val(rec.last_poll).status = Some("DONE")
       /\ \A i \in DOMAIN rec.db_ops :
            rec.db_ops[i].row.status = "PROCESSED" =>
              /\ i = 1
              /\ rec.extraction_result # None
              /\ rec.db_ops[i].row.invoice_number # ""
              /\ rec.db_ops[i].row.vendor_name # ""
              /\ C20_HasField(Val(rec.extraction_result), "invoiceNumber",
                              rec.db_ops[i].row.invoice_number)
              /\ C20_HasField(Val(rec.extraction_result), "senderName",
                              rec.db_ops[i].row.vendor_name)
       /\ rec.error_message # None =>
            /\ rec.pc = "done"
            /\ StatusCode(r) = 422
            /\ rec.db_ops # <<>>
            /\ rec.db_ops[Len(rec.db_ops)].row.status = "FAILED"
            /\ \A i \in 1..(Len(rec.db_ops) - 1) :
                 rec.db_ops[i].row.status = "PROCESSED" /\ rec.db_ops[i].raised
            /\ rec.temp_filepath # None => Val(rec.temp_filepath) \notin DOMAIN dir

C20_Step ==
  \A r \in Slots :
    LET a == req[r]
        b == req'[r]
    IN \/ b = a
       \/ a.pc = "done" /\ b = IdleReq
       \/ /\ a.pc # "done"
          /\ a.error_message = None
          /\ C20_Stage(b.pc) >= C20_Stage(a.pc)
          /\ b.uaa_posts >= a.uaa_posts
          /\ b.job_posts >= a.job_posts
          /\ b.polls >= a.polls
          /\ b.error_message # None =>
               /\ b.uaa_posts = a.uaa_posts
               /\ b.job_posts = a.job_posts
               /\ b.polls = a.polls
               /\ b.document_id = a.document_id
               /\ b.access_token = a.access_token

C20_StateOrder == []C20_Order /\ [][C20_Step]_vars

\* the whole success path, with one PENDING answer before DONE
C20_Witness ==
  /\ req[1].pc = "done"
  /\ StatusCode(1) = 200
  /\ req[1].uaa_posts = 1
  /\ req[1].job_posts = 1
  /\ req[1].polls = 2
  /\ req[1].extraction_result # None
  /\ Len(req[1].db_ops) = 1
  /\ req[1].db_ops[1].row.status = "PROCESSED"

\* parsing failed after DONE: only the FAILED record follows
C20_WitnessFailed ==
  /\ req[1].pc = "done"
  /\ req[1].extraction_result # None
  /\ req[1].error_message # None
  /\ Len(req[1].db_ops) = 1
  /\ req[1].db_ops[1].row.status = "FAILED"

(***************************************************************************)
(* C21.  Nothing but the poll loop is repeated: one upload request sends   *)
(* at most one token request and at most one job-creation request, polls   *)
(* at most max_poll_attempts (30) times, and attempts the PROCESSED insert *)
(* and the FAILED insert at most once each, whichever calls fail.          *)
(***************************************************************************)
C21_NoRetry ==
  \A r \in Slots :
    /\ req[r].uaa_posts <= 1
    /\ req[r].job_posts <= 1
    /\ req[r].polls <= 30
    /\ Cardinality({i \in DOMAIN req[r].db_ops :
                      req[r].db_ops[i].row.status = "PROCESSED"}) <= 1
    /\ Cardinality({i \in DOMAIN req[r].db_ops :
                      req[r].db_ops[i].row.status = "FAILED"}) <= 1
    /\ Len(req[r].db_ops) <= 2

\* every call was made and the last ones failed: the 30th poll answered
\* DONE, the PROCESSED insert raised, the FAILED insert raised as well
C21_Witness ==
  /\ req[1].pc = "done"
  /\ req[1].uaa_posts = 1
  /\ req[1].job_posts = 1
  /\ req[1].polls = 30
  /\ Len(req[1].db_ops) = 2
  /\ req[1].db_ops[1].row.status = "PROCESSED" /\ req[1].db_ops[1].raised
  /\ req[1].db_ops[2].row.status = "FAILED" /\ req[1].db_ops[2].raised

(***************************************************************************)
(* C22 as stated: an upload request adds at most one record to the store.  *)
(* A request answered with success has added exactly one PROCESSED record  *)
(* and no FAILED record; a request answered with 422 has added no          *)
(* PROCESSED record and at most one FAILED record, also when the primary   *)
(* insert fails at its commit or at the close of its connection.  The      *)
(* records a request added are the rows carrying an identifier the store   *)
(* handed to one of the request's inserts.                                 *)
(***************************************************************************)
C22_Added(r) ==
  {i \in DOMAIN database.rows :
     \E k \in DOMAIN req[r].db_ops :
       database.rows[i].invoice_id = req[r].db_ops[k].invoice_id}

C22_Original ==
  \A r \in Slots :
    req[r].pc = "done" =>
      LET added == C22_Added(r)
          processed == {i \in added : database.rows[i].status = "PROCESSED"}
          failed == {i \in added : database.rows[i].status = "FAILED"}
      IN /\ Cardinality(added) <= 1
         /\ StatusCode(r) = 200 =>
              Cardinality(processed) = 1 /\ failed = {}
         /\ StatusCode(r) = 422 =>
              processed = {} /\ Cardinality(failed) <= 1
         /\ StatusCode(r) = 400 => added = {}

(***************************************************************************)
(* C23.  Every record in the store has status PROCESSED or FAILED.  A      *)
(* PROCESSED record has a non-empty invoice number and vendor name and no  *)
(* error message, and one stored by a request carries two field values and *)
(* the payload of the DONE result that request polled.  A FAILED record    *)
(* has invoice number and vendor name 'UNKNOWN', an empty raw payload and  *)
(* an error message (the text of the error, which may be the empty text).  *)
(***************************************************************************)
C23_StoredBy(r, row) ==
  \E k \in DOMAIN req[r].db_ops : row.invoice_id = req[r].db_ops[k].invoice_id

C23_RecordShape ==
  \A i \in DOMAIN database.rows :
    LET row == database.rows[i]
    IN /\ row.status \in {"PROCESSED", "FAILED"}
       /\ row.status = "PROCESSED" =>
            /\ row.invoice_number # ""
            /\ row.vendor_name # ""
            /\ row.error_message = None
            /\ row.raw_text # None
            /\ \A r \in Slots :
                 C23_StoredBy(r, row) =>
                   /\ req[r].extraction_result # None
                   /\ Val(req[r].extraction_result).status_code = 200
                   /\ Val(req[r].extraction_result).status = Some("DONE")
                   /\ C20_HasField(Val(req[r].extraction_result), "invoiceNumber",
                                   row.invoice_number)
                   /\ C20_HasField(Val(req[r].extraction_result), "senderName",
                                   row.vendor_name)
                   /\ row.raw_text = JsonDumps(Val(req[r].extraction_result))
       /\ row.status = "FAILED" =>
            /\ row.invoice_number = "UNKNOWN"
            /\ row.vendor_name = "UNKNOWN"
            /\ row.raw_text = None
            /\ row.error_message # None

\* one request left a PROCESSED record and a FAILED record in the store
C23_Witness ==
  /\ req[1].pc = "done"
  /\ \E i \in DOMAIN database.rows :
       database.rows[i].status = "PROCESSED" /\ C23_StoredBy(1, database.rows[i])
  /\ \E i \in DOMAIN database.rows :
       /\ database.rows[i].status = "FAILED"
       /\ database.rows[i].error_message = Some("Close failed")

\* a FAILED record whose error text is empty
C23_WitnessEmptyText ==
  \E i \in DOMAIN database.rows :
    database.rows[i].status = "FAILED" /\ database.rows[i].error_message = Some("")

(***************************************************************************)
(* C24.  A record never changes once it is in the store, and its           *)
(* identifier is given once, by the insert: every step leaves the rows     *)
(* already stored as they are and adds at most one row, whose identifier   *)
(* no stored row has and which is the value a successful insert returns;   *)
(* get_invoice, get_all_invoices, test_connection and the health check     *)
(* leave the whole store as it is; no two rows share an identifier.        *)
(***************************************************************************)
C24_DistinctIds ==
  \A i \in DOMAIN database.rows : \A j \in DOMAIN database.rows :
    i # j => database.rows[i].invoice_id # database.rows[j].invoice_id

C24_Reads == {"get_invoice", "get_all_invoices", "test_connection", "health_check"}

C24_Step ==
  /\ Len(database'.rows) \in {Len(database.rows), Len(database.rows) + 1}
  /\ \A i \in DOMAIN database.rows : database'.rows[i] = database.rows[i]
  /\ (call'.op \in C24_Reads /\ call.op \notin C24_Reads) => database' = database
  /\ Len(database'.rows) = Len(database.rows) + 1 =>
       LET new == database'.rows[Len(database'.rows)]
       IN /\ call'.op = "insert_invoice"
          /\ \A i \in DOMAIN database.rows : database.rows[i].invoice_id # new.invoice_id
          /\ new.invoice_id > 0
          /\ (~call'.raised => call'.result = Some(new.invoice_id))

C24_RecordsImmutable == []C24_DistinctIds /\ [][C24_Step]_vars

\* a read after three inserts, one of them rolled back: two rows, and the
\* second carries the third identifier
C24_Witness ==
  /\ call.op = "get_all_invoices"
  /\ ~call.raised
  /\ Len(database.rows) = 2
  /\ database.rows[1].invoice_id = 1
  /\ database.rows[2].invoice_id = 3

\* the health check on a store that holds records
C24_WitnessHealth ==
  /\ call.op = "health_check"
  /\ Len(database.rows) = 2

(***************************************************************************)
(* C25.  If every call the request awaits eventually returns, an upload    *)
(* request that was received ends with a response: 200, 400 or 422.  It    *)
(* never polls more than max_poll_attempts (30) times, whatever statuses   *)
(* the vendor answers, PENDING or RUNNING on every poll included.          *)
(***************************************************************************)
C25_Terminal ==
  /\ req[1].pc = "done"
  /\ req[1].response # None
  /\ StatusCode(1) \in {200, 400, 422}

C26_Original ==
  (call.op = "_parse_extraction_results" /\ ~call.raised) =>
    LET header_fields == call.args[1]
        Named(name) == {i \in 1..Len(header_fields) : header_fields[i].name = name}
        LastNamed(name) == CHOOSE i \in Named(name) : \A j \in Named(name) : i >= j
    IN /\ Some(Val(call.result).invoice_number)
            = header_fields[LastNamed("invoiceNumber")].value
       /\ Some(Val(call.result).vendor_name)
            = header_fields[LastNamed("senderName")].value

(***************************************************************************)
(* C26 amended: among the fields of one name, the last occurrence that has *)
(* a value wins.  The value returned is that of a field of the name after  *)
(* which every field of the same name has an empty or absent value; the    *)
(* parser fails only when no field of a name has a value.                  *)
(***************************************************************************)
C26_Wins(header_fields, name, value) ==
  \E i \in 1..Len(header_fields) :
    /\ header_fields[i].name = name
    /\ header_fields[i].value = Some(value)
    /\ value # ""
    /\ \A j \in (i + 1)..Len(header_fields) :
         header_fields[j].name = name => header_fields[j].value \in {None, Some("")}

C26_LastOccurrenceWithValueWins ==
  call.op = "_parse_extraction_results" =>
    LET header_fields == call.args[1]
        HasValue(name) == \E i \in 1..Len(header_fields) :
                            /\ header_fields[i].name = name
                            /\ header_fields[i].value \notin {None, Some("")}
    IN IF call.raised
         THEN ~HasValue("invoiceNumber") \/ ~HasValue("senderName")
         ELSE /\ C26_Wins(header_fields, "invoiceNumber", Val(call.result).invoice_number)
              /\ C26_Wins(header_fields, "senderName", Val(call.result).vendor_name)

\* the last senderName field has no value: the one before it wins
C26_Witness ==
  /\ call.op = "_parse_extraction_results" /\ ~call.raised
  /\ call.args[1] = <<Field("invoiceNumber", Some("INV-1"), 90),
                      Field("senderName", Some("Bolt"), 80),
                      Field("senderName", None, 90)>>
  /\ Val(call.result).vendor_name = "Bolt"

\* two invoiceNumber fields with a value: the later one wins
C26_WitnessDuplicate ==
  /\ call.op = "_parse_extraction_results" /\ ~call.raised
  /\ call.args[1] = <<Field("invoiceNumber", Some("INV-1"), 90),
                      Field("invoiceNumber", Some("INV-2"), 80),
                      Field("senderName", Some("Acme"), 0)>>
  /\ Val(call.result).invoice_number = "INV-2"

(***************************************************************************)
(* C27.  An error no route handler catches is answered with status 500 and *)
(* a body that is the same fixed text for every error at the same URL: it  *)
(* holds the error code, the fixed detail and the URL, and nothing of the  *)
(* error.  A store error during fetch-by-id or list is answered that way.  *)
(* In the upload route only an error raised before the try block gets this *)
(* answer; once the upload is being read, every error is answered 422.     *)
(***************************************************************************)
C27_Fixed(response, url) ==
  /\ response.status_code = 500
  /\ response.detail = "An unexpected error occurred. Please try again later."
  /\ response.body = Some([error |-> "INTERNAL_SERVER_ERROR", path |-> url])

C27_Generic500 ==
  /\ call.op \in {"get_invoice", "get_all_invoices"} =>
       LET response == Val(call.response)
           url == [route |-> IF call.op = "get_invoice"
                               THEN "/api/v1/invoices/{invoice_id}"
                               ELSE "/api/v1/invoices",
                   params |-> call.args]
       IN /\ call.raised <=> response.status_code = 500
          /\ call.raised =>
               /\ C27_Fixed(response, url)
               /\ call.error # ""
               /\ response.detail # call.error
          /\ ~call.raised => response.status_code \in {200, 404}
  /\ \A r \in Slots :
       req[r].response # None =>
         LET response == Val(req[r].response)
         IN /\ response.status_code \in {200, 400, 422, 500}
            /\ response.status_code = 500 =>
                 /\ C27_Fixed(response, [route |-> "/api/v1/invoices/upload",
                                         params |-> <<>>])
                 /\ req[r].temp_filepath = None
                 /\ ~req[r].has_size
                 /\ req[r].error_message = None
                 /\ req[r].db_ops = <<>>
            /\ req[r].error_message # None =>
                 /\ response.status_code = 422
                 /\ response.detail =
                      "Failed to process invoice: " \o Val(req[r].error_message)
            /\ req[r].temp_filepath # None => response.status_code # 500

\* the list failed at the rollback after a failed commit: the generic answer
C27_Witness ==
  /\ call.op = "get_all_invoices"
  /\ call.raised
  /\ call.error = "Rollback failed"
  /\ Len(database.rows) = 2
  /\ Val(call.response).status_code = 500
  /\ Val(call.response).detail = "An unexpected error occurred. Please try again later."

\* fetch-by-id failed at connect
C27_WitnessFetch ==
  /\ call.op = "get_invoice"
  /\ call.error = "Connection failed"
  /\ Val(call.response).status_code = 500

\* the upload directory could not be created: the upload route answers 500
C27_WitnessUpload ==
  /\ req[1].response # None
  /\ StatusCode(1) = 500

\* the store failed in the upload's primary insert: 422, not 500
C27_WitnessUpload422 ==
  /\ req[1].response # None
  /\ StatusCode(1) = 422
  /\ req[1].error_message = Some("Close failed")

====
